---- MODULE Spec2Model ----
(***************************************************************************)
(* Series tracking and new-release detection of audiobookshelf:            *)
(* NewReleaseManager (scheduler and per-series check), SeriesFinder        *)
(* (release diff), the TrackedSeries / NewRelease stores and the           *)
(* SeriesTrackingController handlers (follow, unfollow, dismiss).          *)
(*                                                                         *)
(* Node.js runs one callback at a time, so a step of the model is the code *)
(* between two awaits of one asynchronous call.                            *)
(***************************************************************************)
EXTENDS Integers, Sequences, FiniteSets, TLC

\* ---------------------------------------------------------------- bounds
\* Ticks of the clock (one tick is HoursPerTick hours, at least two ticks).
MaxTicks == 2
\* TrackedSeries rows ever created (primary keys 1..MaxTsId).
MaxTsId == 2
\* NewRelease rows ever created (primary keys 1..MaxRelId).
MaxRelId == 2
\* Entries of one provider listing.
MaxListing == 2

\* ------------------------------------------------------ program constants
\* runScheduledCheck: checkThreshold.setHours(getHours() - 24)
ThresholdHours == 24
\* runScheduledCheck: getDueForCheck(checkThreshold, 100)
BatchLimit == 100
\* One tick of the clock is the span of the threshold.
HoursPerTick == ThresholdHours

\* null of a string column or variable (an ASIN: the empty sequence, falsy like null)
Null == "null"
NoAsin == << >>
\* null of the DATE column lastChecked
NeverChecked == -1

Users == {"u1", "u2"}
Series == {"s1"}
Regions == {"us"}

\* The concurrent invocations of runScheduledCheck (the cron callback and a
\* direct call), of manualCheck and of followSeries.
SweepIds == {"cron", "direct"}
ManualIds == {"m1"}
FollowIds == {"f1", "f2"}
Procs == SweepIds \cup ManualIds

\* -------------------------------------------------------------- identifiers
\* An ASIN is a string; the model keeps it as its sequence of characters.
UpperChar(c) ==
  CASE c = "a" -> "A"
    [] c = "b" -> "B"
    [] c = "s" -> "S"
    [] OTHER -> c

\* String.prototype.toUpperCase
ToUpperCase(str) == [i \in DOMAIN str |-> UpperChar(str[i])]

\* The books of each local series held in the library (read-only for the
\* core): series s1 holds one book whose ASIN is stored in lower case, series
\* s3 holds a book without an ASIN and a book whose ASIN is not well formed,
\* any other series holds none.
LibraryAsins(seriesId) ==
  CASE seriesId = "s1" -> << <<"b", "1">> >>
    [] seriesId = "s3" -> << NoAsin, <<"B", "?">> >>
    [] OTHER -> << >>

\* The series ASINs the provider may report for a book of the series.
ProviderSeriesAsins(seriesId) ==
  IF seriesId = "s1" THEN { <<"S", "1">> } ELSE {}

\* The book ASINs the provider may list for a series: the owned book, a
\* book not owned, and the latter in another letter case.
ProviderAsins == { <<"B", "1">>, <<"B", "2">>, <<"b", "2">> }

RECURSIVE SeqsUpTo(_, _)
SeqsUpTo(S, n) ==
  IF n = 0 THEN { << >> }
  ELSE LET shorter == SeqsUpTo(S, n - 1)
       IN shorter \cup { Append(q, x) : q \in { t \in shorter : Len(t) = n - 1 }, x \in S }

\* Every listing getSeriesBooksByAsin can return (empty on any failure).
Listings == SeqsUpTo({ [asin |-> a] : a \in ProviderAsins }, MaxListing)

Range(q) == { q[i] : i \in DOMAIN q }

VARIABLES
  now,            \* the clock, in ticks
  trackedSeries,  \* table trackedSeries: a set of rows
  newReleases,    \* table newReleases: a set of rows
  nextTsId,       \* next fresh primary key of trackedSeries
  nextRelId,      \* next fresh primary key of newReleases
  isRunning,      \* NewReleaseManager.isRunning
  checkQueue,     \* NewReleaseManager.checkQueue
  cronTask,       \* NewReleaseManager.cronTask: a task of nodeCron, 0 for null
  cronJobs,       \* the tasks nodeCron has scheduled and not stopped
  lastLog,        \* the last of the lines "starting", "skipping", "completed"
                  \* and "error" that runScheduledCheck has logged
  sweep,          \* per invocation of runScheduledCheck: position and list
  check,          \* per invocation of checkSeriesForNewReleases: its locals
  follow,         \* per invocation of followSeries: position and locals
  probe           \* a call of a pure function: its arguments and its result

vars == << now, trackedSeries, newReleases, nextTsId, nextRelId, isRunning,
           checkQueue, cronTask, cronJobs, lastLog, sweep, check, follow, probe >>

store == << trackedSeries, newReleases, nextTsId, nextRelId >>

\* What no scheduler, check or controller step writes.
aside == << checkQueue, cronTask, cronJobs, probe >>

\* new Date(): the clock in hours.
Clock == now * HoursPerTick

NoProbe == [fn |-> "none"]

NoRow == [id |-> 0]

\* The locals of one call of checkSeriesForNewReleases, and what the call has
\* sent out so far: listed (the series-listing request was issued), notified
\* (the rows handed to NotificationManager.onNewSeriesRelease) and emitted
\* (the new_releases_updated event); caught records that one of the catch
\* blocks of the call has handled an error other than the uniqueness conflict.
IdleCheck ==
  [pc |-> "idle", arg |-> 0, ts |-> NoRow, dirty |-> {}, books |-> << >>,
   created |-> << >>, lost |-> FALSE, ret |-> << >>, threw |-> FALSE,
   listed |-> FALSE, notified |-> << >>, emitted |-> FALSE, caught |-> FALSE]

IdleSweep == [pc |-> "idle", queue |-> << >>]

IdleFollow ==
  [pc |-> "idle", userId |-> Null, seriesId |-> Null, region |-> Null,
   seriesAsin |-> NoAsin, result |-> 0, failed |-> FALSE, spawned |-> FALSE]

Init ==
  /\ now = 0
  /\ trackedSeries = {}
  /\ newReleases = {}
  /\ nextTsId = 1
  /\ nextRelId = 1
  /\ isRunning = FALSE
  /\ checkQueue = << >>
  /\ cronTask = 0
  /\ cronJobs = {}
  /\ lastLog = "none"
  /\ sweep = [i \in SweepIds |-> IdleSweep]
  /\ check = [p \in Procs |-> IdleCheck]
  /\ follow = [f \in FollowIds |-> IdleFollow]
  /\ probe = NoProbe

\* ------------------------------------------------------------------ stores
\* TrackedSeries.getByUserAndSeries: the rows of the pair (at most one).
GetByUserAndSeries(userId, seriesId) ==
  { r \in trackedSeries : r.userId = userId /\ r.seriesId = seriesId }

\* The ids of the TrackedSeries rows.
TrackedIds == { r.id : r \in trackedSeries }

\* Model.findByPk on trackedSeries
FindTrackedByPk(id) == { r \in trackedSeries : r.id = id }

\* A save() that inserts the instance when its row is gone (an upsert).
SaveRowUpserts(ts, dirty) ==
  IF \E r \in trackedSeries : r.id = ts.id
    THEN { IF r.id = ts.id
             THEN [r EXCEPT !.seriesAsin = IF "seriesAsin" \in dirty THEN ts.seriesAsin ELSE @,
                            !.lastChecked = IF "lastChecked" \in dirty THEN ts.lastChecked ELSE @]
             ELSE r : r \in trackedSeries }
    ELSE trackedSeries \cup {ts}

\* Instance save(): UPDATE of the changed fields WHERE id; no row, no error.
SaveRow(ts, dirty) ==
  { IF r.id = ts.id
      THEN [r EXCEPT !.seriesAsin = IF "seriesAsin" \in dirty THEN ts.seriesAsin ELSE @,
                     !.lastChecked = IF "lastChecked" \in dirty THEN ts.lastChecked ELSE @]
      ELSE r : r \in trackedSeries }

\* Index unique_release_per_tracked_series on newReleases(trackedSeriesId, asin).
ReleaseConflict(trackedSeriesId, asin) ==
  \E r \in newReleases : r.trackedSeriesId = trackedSeriesId /\ r.asin = asin

\* Index unique_tracked_series_per_user on trackedSeries(userId, seriesId).
TrackedConflict(userId, seriesId) ==
  \E r \in trackedSeries : r.userId = userId /\ r.seriesId = seriesId

\* isValidASIN of server/utils: the fixed-format identifier pattern.
AsinLen == 2
AlnumUpper == {"A", "B", "S", "0", "1", "2"}
IsValidASIN(str) == Len(str) = AsinLen /\ \A i \in DOMAIN str : str[i] \in AlnumUpper

\* ------------------------------------------------------------ SeriesFinder
\* A filter that looks up the identifier as the provider spelled it.
RECURSIVE FilterNewBooksCaseSensitive(_, _, _)
FilterNewBooksCaseSensitive(externalBooks, libraryAsins, existingReleaseAsins) ==
  IF externalBooks = << >> THEN << >>
  ELSE LET book == Head(externalBooks)
           rest == FilterNewBooksCaseSensitive(Tail(externalBooks), libraryAsins,
                                               existingReleaseAsins)
           keep == /\ book.asin # NoAsin
                   /\ book.asin \notin libraryAsins
                   /\ book.asin \notin existingReleaseAsins
       IN IF keep THEN << book >> \o rest ELSE rest

\* Array.prototype.filter with the predicate of getNewReleasesForSeries.
RECURSIVE FilterNewBooks(_, _, _)
FilterNewBooks(externalBooks, libraryAsins, existingReleaseAsins) ==
  IF externalBooks = << >> THEN << >>
  ELSE LET book == Head(externalBooks)
           rest == FilterNewBooks(Tail(externalBooks), libraryAsins, existingReleaseAsins)
           keep == /\ book.asin # NoAsin
                   /\ ToUpperCase(book.asin) \notin libraryAsins
                   /\ ToUpperCase(book.asin) \notin existingReleaseAsins
       IN IF keep THEN << book >> \o rest ELSE rest

\* libraryBooks.map((book) => book.asin?.toUpperCase()).filter(Boolean)
LibraryAsinSet(seriesId) ==
  { ToUpperCase(a) : a \in { b \in Range(LibraryAsins(seriesId)) : b # NoAsin } }

\* The recorded identifiers as they are stored, not case-normalized.
ExistingReleaseAsinsAsStored(trackedSeriesId) ==
  { r.asin : r \in { x \in newReleases : x.trackedSeriesId = trackedSeriesId } }

\* A query of the releases recorded that leaves the dismissed ones out.
ExistingReleaseAsinsUndismissed(trackedSeriesId) ==
  { ToUpperCase(r.asin) :
      r \in { x \in newReleases : x.trackedSeriesId = trackedSeriesId /\ ~x.dismissed } }

\* newReleaseModel.findAll({ where: { trackedSeriesId } }) mapped to upper case
ExistingReleaseAsins(trackedSeriesId) ==
  { ToUpperCase(r.asin) : r \in { x \in newReleases : x.trackedSeriesId = trackedSeriesId } }

\* SeriesFinder.getNewReleasesForSeries, given what getSeriesBooksByAsin returned.
GetNewReleasesForSeries(ts, externalBooks) ==
  IF ts.seriesAsin = NoAsin THEN << >>
  ELSE IF externalBooks = << >> THEN << >>
  ELSE FilterNewBooks(externalBooks, LibraryAsinSet(ts.seriesId), ExistingReleaseAsins(ts.id))

\* SeriesFinder.getSeriesBooksByAsin: what it may return for a series ASIN.
GetSeriesBooksByAsin(seriesAsin) ==
  IF seriesAsin = NoAsin \/ ~IsValidASIN(ToUpperCase(seriesAsin)) THEN { << >> } ELSE Listings

\* SeriesFinder.findSeriesAsinFromLibrary: what it may return for a series.
FindSeriesAsinFromLibrary(seriesId) ==
  {NoAsin} \cup
  (IF \E i \in DOMAIN LibraryAsins(seriesId) :
        LET a == LibraryAsins(seriesId)[i] IN a # NoAsin /\ IsValidASIN(ToUpperCase(a))
     THEN ProviderSeriesAsins(seriesId) ELSE {})

\* ----------------------------------------------------------------- clock
Tick ==
  /\ now < MaxTicks
  /\ now' = now + 1
  /\ UNCHANGED << store, isRunning, aside, lastLog, sweep, check, follow >>

\* ------------------------------------------- checkSeriesForNewReleases
SetCheck(p, c) == check' = [check EXCEPT ![p] = c]

\* The call of checkSeriesForNewReleases up to its first await.
BeginCheck(ts) ==
  [IdleCheck EXCEPT !.pc = IF ts.seriesAsin = NoAsin THEN "resolve" ELSE "diff",
                    !.ts = ts]

\* this.lastChecked = new Date() of updateLastChecked, before its save().
Touch(c) ==
  [c EXCEPT !.ts.lastChecked = Clock, !.dirty = @ \cup {"lastChecked"}]

\* await findSeriesAsinFromLibrary(seriesId, region), which answers one of
\* the given identifiers (NoAsin: null) or throws.
CheckResolveWith(p, answers) ==
  LET c == check[p] IN
  /\ c.pc = "resolve"
  /\ \/ SetCheck(p, [c EXCEPT !.pc = "catch", !.caught = TRUE])
     \/ \E a \in answers :
          IF a # NoAsin
            THEN SetCheck(p, [c EXCEPT !.ts.seriesAsin = a,
                                       !.dirty = @ \cup {"seriesAsin"},
                                       !.pc = "saveAsin"])
            ELSE SetCheck(p, [c EXCEPT !.pc = "lcNull"])
  /\ UNCHANGED << now, store, isRunning, aside, lastLog, sweep, follow >>

\* await findSeriesAsinFromLibrary(seriesId, region)
CheckResolve(p) == CheckResolveWith(p, FindSeriesAsinFromLibrary(check[p].ts.seriesId))

\* await trackedSeries.updateSeriesAsin(seriesAsin)
CheckSaveAsin(p) ==
  LET c == check[p] IN
  /\ c.pc = "saveAsin"
  /\ \/ /\ trackedSeries' = SaveRow(c.ts, c.dirty)
        /\ SetCheck(p, [c EXCEPT !.dirty = {}, !.pc = "diff"])
     \/ /\ SetCheck(p, [c EXCEPT !.pc = "catch", !.caught = TRUE])
        /\ UNCHANGED trackedSeries
  /\ UNCHANGED << now, newReleases, nextTsId, nextRelId, isRunning, aside,
                  lastLog, sweep, follow >>

\* A resolver failure that returns the empty list without touching the row.
CheckUnresolvedReturnsOnly(p) ==
  /\ check[p].pc = "lcNull"
  /\ SetCheck(p, [check[p] EXCEPT !.ret = << >>, !.pc = "ret"])
  /\ UNCHANGED << now, store, isRunning, aside, lastLog, sweep, follow >>

\* await trackedSeries.updateLastChecked(); return [] (the resolver found nothing)
CheckLastCheckedUnresolved(p) ==
  LET c == Touch(check[p]) IN
  /\ check[p].pc = "lcNull"
  /\ \/ /\ trackedSeries' = SaveRow(c.ts, c.dirty)
        /\ SetCheck(p, [c EXCEPT !.dirty = {}, !.ret = << >>, !.pc = "ret"])
     \/ /\ SetCheck(p, [c EXCEPT !.pc = "catch", !.caught = TRUE])
        /\ UNCHANGED trackedSeries
  /\ UNCHANGED << now, newReleases, nextTsId, nextRelId, isRunning, aside,
                  lastLog, sweep, follow >>

\* getSeriesBooksByAsin calls audible.getBooksBySeriesAsin, the first await of
\* getNewReleasesForSeries, exactly for a well-formed identifier.
ListingRequested(seriesAsin) ==
  seriesAsin # NoAsin /\ IsValidASIN(ToUpperCase(seriesAsin))

\* await this.seriesFinder.getNewReleasesForSeries(trackedSeries), where
\* getSeriesBooksByAsin returns one of the given listings, or a later step of
\* getNewReleasesForSeries throws.
CheckDiffWith(p, listings) ==
  LET c == [check[p] EXCEPT !.listed = ListingRequested(check[p].ts.seriesAsin)] IN
  /\ check[p].pc = "diff"
  /\ \/ SetCheck(p, [c EXCEPT !.pc = "catch", !.caught = TRUE])
     \/ \E externalBooks \in listings :
          LET newBooks == GetNewReleasesForSeries(c.ts, externalBooks) IN
          SetCheck(p, [c EXCEPT !.books = newBooks,
                                !.pc = IF newBooks = << >> THEN "lc" ELSE "create"])
  /\ UNCHANGED << now, store, isRunning, aside, lastLog, sweep, follow >>

\* await this.seriesFinder.getNewReleasesForSeries(trackedSeries)
CheckDiff(p) == CheckDiffWith(p, GetSeriesBooksByAsin(check[p].ts.seriesAsin))

\* An INSERT into a table that has no unique index on (trackedSeriesId, asin),
\* as the model definition of NewRelease alone would create it.
CanInsertReleaseNoIndex(trackedSeriesId, asin) ==
  FindTrackedByPk(trackedSeriesId) # {}

\* An INSERT into a table whose trackedSeriesId column references nothing.
CanInsertReleaseNoForeignKey(trackedSeriesId, asin) ==
  ~ReleaseConflict(trackedSeriesId, asin)

\* NewRelease.createNewRelease: the INSERT, refused by the unique index and by
\* the foreign key newReleases.trackedSeriesId.
CanInsertRelease(trackedSeriesId, asin) ==
  /\ ~ReleaseConflict(trackedSeriesId, asin)
  /\ FindTrackedByPk(trackedSeriesId) # {}

\* One iteration of the loop over newBooks: createNewRelease inside try/catch.
\* The field lost records that an INSERT of this check met the unique index.
CheckCreate(p) ==
  LET c == check[p]
      book == Head(c.books)
      after == [c EXCEPT !.books = Tail(@),
                         !.pc = IF Len(c.books) = 1 THEN "lc" ELSE "create"]
  IN
  /\ c.pc = "create"
  /\ \/ /\ CanInsertRelease(c.ts.id, book.asin)
        /\ nextRelId <= MaxRelId
        /\ newReleases' = newReleases \cup
             { [id |-> nextRelId, trackedSeriesId |-> c.ts.id, asin |-> book.asin,
                dismissed |-> FALSE] }
        /\ nextRelId' = nextRelId + 1
        /\ SetCheck(p, [after EXCEPT !.created = Append(@, nextRelId)])
     \/ \* SequelizeUniqueConstraintError or any other error: logged, loop goes on
        /\ SetCheck(p, [after EXCEPT !.lost = @ \/ ReleaseConflict(c.ts.id, book.asin),
                                     !.caught = @ \/ ~ReleaseConflict(c.ts.id, book.asin)])
        /\ UNCHANGED << newReleases, nextRelId >>
  /\ UNCHANGED << now, trackedSeries, nextTsId, isRunning, aside, lastLog,
                  sweep, follow >>

\* await trackedSeries.updateLastChecked(); notifyNewReleases; emit; return
CheckLastChecked(p) ==
  LET c == Touch(check[p]) IN
  /\ check[p].pc = "lc"
  /\ \/ /\ trackedSeries' = SaveRow(c.ts, c.dirty)
        /\ \/ SetCheck(p, [c EXCEPT !.dirty = {}, !.ret = c.created, !.pc = "ret",
                                      !.notified = c.created,
                                      !.emitted = (c.created # << >>)])
           \/ \* onNewSeriesRelease throws at one of the rows: the rows before
              \* it were handed over, nothing is emitted
              /\ c.created # << >>
              /\ \E k \in 0 .. (Len(c.created) - 1) :
                   SetCheck(p, [c EXCEPT !.dirty = {}, !.pc = "catch", !.caught = TRUE,
                                         !.notified = SubSeq(c.created, 1, k)])
     \/ /\ SetCheck(p, [c EXCEPT !.pc = "catch", !.caught = TRUE])
        /\ UNCHANGED trackedSeries
  /\ UNCHANGED << now, newReleases, nextTsId, nextRelId, isRunning, aside,
                  lastLog, sweep, follow >>

\* A catch block that undoes the inserts of the failed check.
CheckCatchDeletesCreated(p) ==
  LET c == Touch(check[p]) IN
  /\ check[p].pc = "catch"
  /\ trackedSeries' = SaveRow(c.ts, c.dirty)
  /\ newReleases' = { r \in newReleases : r.id \notin Range(c.created) }
  /\ SetCheck(p, [c EXCEPT !.dirty = {}, !.ret = << >>, !.pc = "ret"])
  /\ UNCHANGED << now, nextTsId, nextRelId, isRunning, aside, lastLog, sweep, follow >>

\* A catch block that logs and returns without updating lastChecked.
CheckCatchReturnsOnly(p) ==
  /\ check[p].pc = "catch"
  /\ SetCheck(p, [check[p] EXCEPT !.ret = << >>, !.pc = "ret"])
  /\ UNCHANGED << now, store, isRunning, aside, lastLog, sweep, follow >>

\* catch (error) { await trackedSeries.updateLastChecked(); return [] }
CheckCatch(p) ==
  LET c == Touch(check[p]) IN
  /\ check[p].pc = "catch"
  /\ \/ /\ trackedSeries' = SaveRow(c.ts, c.dirty)
        /\ SetCheck(p, [c EXCEPT !.dirty = {}, !.ret = << >>, !.pc = "ret"])
     \/ \* the update fails again: the error leaves checkSeriesForNewReleases
        /\ SetCheck(p, [c EXCEPT !.threw = TRUE, !.pc = "ret"])
        /\ UNCHANGED trackedSeries
  /\ UNCHANGED << now, newReleases, nextTsId, nextRelId, isRunning, aside,
                  lastLog, sweep, follow >>

\* ------------------------------------------------------------ manualCheck
\* A manual check that respects the guard of the sweep.
ManualCheckGuarded(m, id) ==
  /\ ~isRunning
  /\ check[m].pc = "idle"
  /\ SetCheck(m, [IdleCheck EXCEPT !.pc = "find", !.arg = id])
  /\ UNCHANGED << now, store, isRunning, aside, lastLog, sweep, follow >>

\* manualCheck(trackedSeriesId) is called.
ManualCheck(m, id) ==
  /\ check[m].pc = "idle"
  /\ SetCheck(m, [IdleCheck EXCEPT !.pc = "find", !.arg = id])
  /\ UNCHANGED << now, store, isRunning, aside, lastLog, sweep, follow >>

\* await findByPk(trackedSeriesId); not found: return []
ManualFind(m) ==
  LET c == check[m] IN
  /\ c.pc = "find"
  /\ \/ /\ FindTrackedByPk(c.arg) = {}
        /\ SetCheck(m, [c EXCEPT !.ret = << >>, !.pc = "ret"])
     \/ \E row \in FindTrackedByPk(c.arg) :
          SetCheck(m, BeginCheck(row))
     \/ SetCheck(m, [c EXCEPT !.threw = TRUE, !.pc = "ret"])
  /\ UNCHANGED << now, store, isRunning, aside, lastLog, sweep, follow >>

\* The caller has taken the result of manualCheck.
ManualReturn(m) ==
  /\ check[m].pc = "ret"
  /\ SetCheck(m, IdleCheck)
  /\ UNCHANGED << now, store, isRunning, aside, lastLog, sweep, follow >>

\* ------------------------------------------------------ runScheduledCheck
\* A WHERE clause with the comparison only: NULL < date is not true in SQL.
IsDueComparisonOnly(r, thresholdDate) ==
  r.lastChecked # NeverChecked /\ r.lastChecked < thresholdDate

\* WHERE lastChecked IS NULL OR lastChecked < thresholdDate (times in hours)
IsDue(r, thresholdDate) ==
  r.lastChecked = NeverChecked \/ r.lastChecked < thresholdDate

\* ORDER BY lastChecked DESC NULLS FIRST: a may come before b
SortsBeforeNewestFirst(a, b) ==
  a.lastChecked = NeverChecked \/ (b.lastChecked # NeverChecked /\ a.lastChecked >= b.lastChecked)

\* ORDER BY lastChecked ASC NULLS FIRST: a may come before b
SortsBefore(a, b) ==
  a.lastChecked = NeverChecked \/ (b.lastChecked # NeverChecked /\ a.lastChecked <= b.lastChecked)

\* TrackedSeries.getDueForCheck(thresholdDate, limit): every list the query
\* may return (rows with equal lastChecked come in any order).
GetDueForCheck(thresholdDate, limit) ==
  LET due == { r \in trackedSeries : IsDue(r, thresholdDate) }
      n == IF Cardinality(due) < limit THEN Cardinality(due) ELSE limit
  IN { q \in [1..n -> due] :
         /\ \A i, j \in 1..n : i < j => (q[i] # q[j] /\ SortsBefore(q[i], q[j]))
         /\ \A r \in due \ Range(q) : \A i \in 1..n : SortsBefore(q[i], r) }

\* An end of runScheduledCheck that resets the flag after the loop only, with
\* no finally block.
SweepEndsNoFinally(i, line) ==
  /\ isRunning' = IF line = "error" THEN isRunning ELSE FALSE
  /\ lastLog' = line
  /\ sweep' = [sweep EXCEPT ![i] = IdleSweep]

\* The end of runScheduledCheck: the line logged after the loop ("completed")
\* or in the catch block ("error"), then the finally block.
SweepEnds(i, line) ==
  /\ isRunning' = FALSE
  /\ lastLog' = line
  /\ sweep' = [sweep EXCEPT ![i] = IdleSweep]

\* The for loop of runScheduledCheck takes the next tracked series, or ends.
SweepGoesOn(i, queue) ==
  IF queue = << >>
    THEN /\ SweepEnds(i, "completed")
         /\ SetCheck(i, IdleCheck)
    ELSE /\ sweep' = [sweep EXCEPT ![i] = [pc |-> "checking", queue |-> Tail(queue)]]
         /\ SetCheck(i, BeginCheck(Head(queue)))
         /\ UNCHANGED << isRunning, lastLog >>

\* A trigger that does not look at the flag.
RunScheduledCheckUnguarded(i) ==
  /\ sweep[i].pc = "idle"
  /\ isRunning' = TRUE
  /\ lastLog' = "starting"
  /\ sweep' = [sweep EXCEPT ![i].pc = "select"]
  /\ UNCHANGED << now, store, aside, check, follow >>

\* A dropped trigger that runs the finally block (the guard inside the try).
RunScheduledCheckClearsFlag(i) ==
  /\ sweep[i].pc = "idle"
  /\ IF isRunning
       THEN /\ lastLog' = "skipping"
            /\ sweep' = [sweep EXCEPT ![i].pc = "skipped"]
            /\ isRunning' = FALSE
       ELSE /\ isRunning' = TRUE
            /\ lastLog' = "starting"
            /\ sweep' = [sweep EXCEPT ![i].pc = "select"]
  /\ UNCHANGED << now, store, aside, check, follow >>

\* runScheduledCheck() is called: the guard, the flag and the first log line.
RunScheduledCheck(i) ==
  /\ sweep[i].pc = "idle"
  /\ IF isRunning
       THEN /\ lastLog' = "skipping"
            /\ sweep' = [sweep EXCEPT ![i].pc = "skipped"]
            /\ UNCHANGED isRunning
       ELSE /\ isRunning' = TRUE
            /\ lastLog' = "starting"
            /\ sweep' = [sweep EXCEPT ![i].pc = "select"]
  /\ UNCHANGED << now, store, aside, check, follow >>

\* The dropped call has returned.
SweepSkippedReturn(i) ==
  /\ sweep[i].pc = "skipped"
  /\ sweep' = [sweep EXCEPT ![i] = IdleSweep]
  /\ UNCHANGED << now, store, isRunning, aside, lastLog, check, follow >>

\* await getDueForCheck(checkThreshold, limit), then the first loop iteration
SweepSelectWith(i, limit) ==
  /\ sweep[i].pc = "select"
  /\ \/ /\ SweepEnds(i, "error")       \* the query rejects
        /\ UNCHANGED check
     \/ \E q \in GetDueForCheck(Clock - ThresholdHours, limit) :
          SweepGoesOn(i, q)
  /\ UNCHANGED << now, store, aside, follow >>

\* await getDueForCheck(checkThreshold, 100), then the first loop iteration
SweepSelect(i) == SweepSelectWith(i, BatchLimit)

\* checkSeriesForNewReleases has returned and delay(2000) has elapsed, or the
\* check has thrown into the catch of runScheduledCheck.
SweepNext(i) ==
  /\ sweep[i].pc = "checking"
  /\ check[i].pc = "ret"
  /\ IF check[i].threw
       THEN /\ SweepEnds(i, "error")
            /\ SetCheck(i, IdleCheck)
       ELSE SweepGoesOn(i, sweep[i].queue)
  /\ UNCHANGED << now, store, aside, follow >>

\* ----------------------------------------------- SeriesTrackingController
SetFollow(f, r) == follow' = [follow EXCEPT ![f] = r]

\* A follow that starts no check.
SpawnNothing(id) == UNCHANGED check

\* NewReleaseManager.manualCheck(id).catch(...) without await: the call starts
\* in a free invocation of manualCheck.
SpawnManualCheck(id) ==
  \E m \in ManualIds :
    /\ check[m].pc = "idle"
    /\ SetCheck(m, [IdleCheck EXCEPT !.pc = "find", !.arg = id])

\* A follow request that leaves the decision to createTrackedSeries, with no
\* early return of the existing row.
FollowSeriesNoEarlyReturn(f, userId, seriesId, region) ==
  LET r == [IdleFollow EXCEPT !.userId = userId, !.seriesId = seriesId, !.region = region]
  IN
  /\ follow[f].pc = "idle"
  /\ \/ SetFollow(f, [r EXCEPT !.pc = "createLookup"])
     \/ SetFollow(f, [r EXCEPT !.failed = TRUE])
  /\ UNCHANGED << now, store, isRunning, aside, lastLog, sweep, check >>

\* POST /api/me/series/:id/follow up to the answer of getByUserAndSeries:
\* if (existing) return res.json(existing.toJSON())
FollowSeries(f, userId, seriesId, region) ==
  LET r == [IdleFollow EXCEPT !.userId = userId, !.seriesId = seriesId, !.region = region]
      existing == GetByUserAndSeries(userId, seriesId)
  IN
  /\ follow[f].pc = "idle"
  /\ \/ /\ existing # {}
        /\ \E row \in existing : SetFollow(f, [r EXCEPT !.result = row.id])
     \/ /\ existing = {}
        /\ SetFollow(f, [r EXCEPT !.pc = "createLookup"])
     \/ SetFollow(f, [r EXCEPT !.failed = TRUE])
  /\ UNCHANGED << now, store, isRunning, aside, lastLog, sweep, check >>

\* The books of the series, the region, the loop over findSeriesAsinFromBook,
\* then createTrackedSeries up to its own getByUserAndSeries.
FollowCreateLookup(f) ==
  LET r == follow[f]
      existing == GetByUserAndSeries(r.userId, r.seriesId)
  IN
  /\ r.pc = "createLookup"
  /\ \/ \E a \in FindSeriesAsinFromLibrary(r.seriesId) :
          IF existing # {}
            THEN \E row \in existing :
                   /\ UNCHANGED trackedSeries
                   /\ IF a # NoAsin
                        THEN /\ SpawnManualCheck(row.id)
                             /\ SetFollow(f, [r EXCEPT !.seriesAsin = a, !.result = row.id,
                                                       !.spawned = TRUE, !.pc = "idle"])
                        ELSE /\ UNCHANGED check
                             /\ SetFollow(f, [r EXCEPT !.result = row.id, !.pc = "idle"])
            ELSE /\ SetFollow(f, [r EXCEPT !.seriesAsin = a, !.pc = "create"])
                 /\ UNCHANGED << trackedSeries, check >>
     \/ /\ SetFollow(f, [r EXCEPT !.failed = TRUE, !.pc = "idle"])
        /\ UNCHANGED << trackedSeries, check >>
  /\ UNCHANGED << now, newReleases, nextTsId, nextRelId, isRunning, aside,
                  lastLog, sweep >>

\* An INSERT into a table that has no unique index on (userId, seriesId).
CanInsertTrackedNoIndex(userId, seriesId) == TRUE

\* The INSERT of createTrackedSeries, refused by unique_tracked_series_per_user.
CanInsertTracked(userId, seriesId) == ~TrackedConflict(userId, seriesId)

\* this.create({...}) of createTrackedSeries, then the rest of followSeries
FollowCreate(f) ==
  LET r == follow[f] IN
  /\ r.pc = "create"
  /\ \/ /\ CanInsertTracked(r.userId, r.seriesId)
        /\ nextTsId <= MaxTsId
        /\ trackedSeries' = trackedSeries \cup
             { [id |-> nextTsId, userId |-> r.userId, seriesId |-> r.seriesId,
                seriesAsin |-> r.seriesAsin, autoTracked |-> FALSE,
                region |-> r.region, lastChecked |-> NeverChecked] }
        /\ nextTsId' = nextTsId + 1
        /\ IF r.seriesAsin # NoAsin
             THEN /\ SpawnManualCheck(nextTsId)
                  /\ SetFollow(f, [r EXCEPT !.result = nextTsId, !.spawned = TRUE,
                                            !.pc = "idle"])
             ELSE /\ UNCHANGED check
                  /\ SetFollow(f, [r EXCEPT !.result = nextTsId, !.pc = "idle"])
     \/ \* SequelizeUniqueConstraintError or any other error: the request fails
        /\ SetFollow(f, [r EXCEPT !.failed = TRUE, !.pc = "idle"])
        /\ UNCHANGED << trackedSeries, nextTsId, check >>
  /\ UNCHANGED << now, newReleases, nextRelId, isRunning, aside, lastLog, sweep >>

\* A DELETE on trackedSeries that leaves the rows of newReleases alone.
NoCascade(gone) == newReleases

\* ON DELETE CASCADE of the foreign key newReleases.trackedSeriesId: the rows
\* of newReleases that are left when the tracked series gone are deleted.
Cascade(gone) ==
  { r \in newReleases : r.trackedSeriesId \notin { g.id : g \in gone } }

\* TrackedSeries.removeTracking: this.destroy({ where: { userId, seriesId } })
RemoveTracking(userId, seriesId) ==
  LET gone == GetByUserAndSeries(userId, seriesId) IN
  /\ trackedSeries' = trackedSeries \ gone
  /\ newReleases' = Cascade(gone)

\* DELETE /api/me/series/:id/follow: removeTracking, with the cascade of the
\* foreign key newReleases.trackedSeriesId.
UnfollowSeries(userId, seriesId) ==
  /\ RemoveTracking(userId, seriesId)
  /\ UNCHANGED << now, nextTsId, nextRelId, isRunning, aside, lastLog, sweep,
                  check, follow >>

\* DELETE /api/me/series/:id/follow with its answer kept in probe: success
\* when removeTracking returned true (deleted > 0), 404 "not tracking" when
\* it returned false, an error when the DELETE was rejected.
UnfollowSeriesAnswered(userId, seriesId) ==
  LET call == [fn |-> "unfollowSeries", userId |-> userId, seriesId |-> seriesId] IN
  /\ \/ /\ RemoveTracking(userId, seriesId)
        /\ probe' = call @@
                      [removed |-> IF GetByUserAndSeries(userId, seriesId) # {}
                                     THEN "true" ELSE "false"]
     \/ /\ UNCHANGED << trackedSeries, newReleases >>
        /\ probe' = call @@ [removed |-> "error"]
  /\ UNCHANGED << now, nextTsId, nextRelId, isRunning, checkQueue, cronTask, cronJobs,
                  lastLog, sweep, check, follow >>

\* An UPDATE that flips the flag of the rows selected.
SetDismissedToggles(rows) ==
  { IF r \in rows THEN [r EXCEPT !.dismissed = ~@] ELSE r : r \in newReleases }

\* UPDATE newReleases SET dismissed = true WHERE the rows selected
SetDismissed(rows) ==
  { IF r \in rows THEN [r EXCEPT !.dismissed = TRUE] ELSE r : r \in newReleases }

\* POST /api/me/new-releases/:id/dismiss: 404 unless the release belongs to a
\* tracking of the user, else NewRelease.dismissRelease(releaseId)
DismissRelease(userId, releaseId) ==
  LET mine == { r \in newReleases :
                  /\ r.id = releaseId
                  /\ \E t \in trackedSeries : t.id = r.trackedSeriesId /\ t.userId = userId }
  IN
  /\ newReleases' = SetDismissed(mine)
  /\ UNCHANGED << now, trackedSeries, nextTsId, nextRelId, isRunning, aside,
                  lastLog, sweep, check, follow >>

\* POST /api/me/new-releases/dismiss-all: NewRelease.dismissAllForUser(userId)
DismissAllReleases(userId) ==
  LET ids == { t.id : t \in { x \in trackedSeries : x.userId = userId } }
      pending == { r \in newReleases : r.trackedSeriesId \in ids /\ ~r.dismissed }
  IN
  /\ newReleases' = SetDismissed(pending)
  /\ UNCHANGED << now, trackedSeries, nextTsId, nextRelId, isRunning, aside,
                  lastLog, sweep, check, follow >>

\* ------------------------------------------------------- init and stop
\* Tasks of nodeCron alive at one time.
MaxTasks == 2
TaskIds == 1..MaxTasks

\* A start that stops the task it is about to replace.
StartReplacesTask ==
  /\ \E t \in TaskIds \ cronJobs :
       /\ cronTask' = t
       /\ cronJobs' = (cronJobs \ {cronTask}) \cup {t}
  /\ UNCHANGED << now, store, isRunning, checkQueue, lastLog, sweep, check, follow, probe >>

\* init(): this.cronTask = cron.schedule('0 4 * * *', callback). The new task
\* is scheduled; the task this.cronTask referred to before stays scheduled.
Start ==
  /\ \E t \in TaskIds \ cronJobs :
       /\ cronTask' = t
       /\ cronJobs' = cronJobs \cup {t}
  /\ UNCHANGED << now, store, isRunning, checkQueue, lastLog, sweep, check, follow, probe >>

\* stop(): if (this.cronTask) { this.cronTask.stop(); this.cronTask = null }
Stop ==
  /\ IF cronTask # 0
       THEN /\ cronJobs' = cronJobs \ {cronTask}
            /\ cronTask' = 0
       ELSE UNCHANGED << cronTask, cronJobs >>
  /\ UNCHANGED << now, store, isRunning, checkQueue, lastLog, sweep, check, follow, probe >>

\* A scheduled task fires: its callback calls this.runScheduledCheck().
CronFire(t, i) ==
  /\ t \in cronJobs
  /\ RunScheduledCheck(i)

\* ------------------------------------------------------- specifications
\* The whole system from an empty database.
Next ==
  \/ Tick
  \/ \E i \in SweepIds : RunScheduledCheck(i)
  \/ \E i \in SweepIds : SweepSkippedReturn(i)
  \/ \E i \in SweepIds : SweepSelect(i)
  \/ \E i \in SweepIds : SweepNext(i)
  \/ \E p \in Procs : CheckResolve(p)
  \/ \E p \in Procs : CheckSaveAsin(p)
  \/ \E p \in Procs : CheckLastCheckedUnresolved(p)
  \/ \E p \in Procs : CheckDiff(p)
  \/ \E p \in Procs : CheckCreate(p)
  \/ \E p \in Procs : CheckLastChecked(p)
  \/ \E p \in Procs : CheckCatch(p)
  \/ \E m \in ManualIds : \E id \in 1..MaxTsId : ManualCheck(m, id)
  \/ \E m \in ManualIds : ManualFind(m)
  \/ \E m \in ManualIds : ManualReturn(m)
  \/ \E f \in FollowIds : \E u \in Users : \E s \in Series : \E g \in Regions :
       FollowSeries(f, u, s, g)
  \/ \E f \in FollowIds : FollowCreateLookup(f)
  \/ \E f \in FollowIds : FollowCreate(f)
  \/ \E u \in Users : \E s \in Series : UnfollowSeries(u, s)
  \/ \E u \in Users : \E id \in 1..MaxRelId : DismissRelease(u, id)
  \/ \E u \in Users : DismissAllReleases(u)

Spec == Init /\ [][Next]_vars


\* Rows of trackedSeries as follow requests leave them: u1 follows s1 with no
\* series ASIN found yet, u2 follows s1 with the series ASIN resolved, u2
\* follows s2 (no book of it in the library) with the series ASIN resolved.
Unresolved ==
  [id |-> 1, userId |-> "u1", seriesId |-> "s1", seriesAsin |-> NoAsin,
   autoTracked |-> FALSE, region |-> "us", lastChecked |-> NeverChecked]
Resolved ==
  [id |-> 2, userId |-> "u2", seriesId |-> "s1", seriesAsin |-> <<"S", "1">>,
   autoTracked |-> FALSE, region |-> "us", lastChecked |-> NeverChecked]
ResolvedNotOwned ==
  [id |-> 3, userId |-> "u2", seriesId |-> "s2", seriesAsin |-> <<"S", "1">>,
   autoTracked |-> FALSE, region |-> "us", lastChecked |-> NeverChecked]

\* The server at rest over a database that holds the given tracked series.
InitTrackedWith(rows) ==
  /\ now = 0
  /\ trackedSeries = rows
  /\ newReleases = {}
  /\ nextTsId = Cardinality(rows) + 1
  /\ nextRelId = 1
  /\ isRunning = FALSE
  /\ checkQueue = << >>
  /\ cronTask = 0
  /\ cronJobs = {}
  /\ lastLog = "none"
  /\ sweep = [i \in SweepIds |-> IdleSweep]
  /\ check = [p \in Procs |-> IdleCheck]
  /\ follow = [f \in FollowIds |-> IdleFollow]
  /\ probe = NoProbe

\* The scheduler alone: both triggers of runScheduledCheck over two tracked
\* series, the clock and unfollow requests.
NextSweep ==
  \/ Tick
  \/ \E i \in SweepIds : RunScheduledCheck(i)
  \/ \E i \in SweepIds : SweepSkippedReturn(i)
  \/ \E i \in SweepIds : SweepSelect(i)
  \/ \E i \in SweepIds : SweepNext(i)
  \/ \E p \in SweepIds : CheckResolve(p)
  \/ \E p \in SweepIds : CheckSaveAsin(p)
  \/ \E p \in SweepIds : CheckLastCheckedUnresolved(p)
  \/ \E p \in SweepIds : CheckDiff(p)
  \/ \E p \in SweepIds : CheckCreate(p)
  \/ \E p \in SweepIds : CheckLastChecked(p)
  \/ \E p \in SweepIds : CheckCatch(p)
  \/ \E u \in Users : \E s \in Series : UnfollowSeries(u, s)

SweepSpec == InitTrackedWith({Unresolved, Resolved}) /\ [][NextSweep]_vars

\* Every await of a running sweep completes: the database answers or fails,
\* a request ends within its timeout, the timer of delay() fires.
SweepStep(i) ==
  \/ SweepSelect(i)
  \/ SweepNext(i)
  \/ CheckResolve(i)
  \/ CheckSaveAsin(i)
  \/ CheckLastCheckedUnresolved(i)
  \/ CheckDiff(i)
  \/ CheckCreate(i)
  \/ CheckLastChecked(i)
  \/ CheckCatch(i)

\* The scheduler within one tick of the clock (a sweep of at most 100 series
\* takes minutes, a tick is a day), under the fairness of each running sweep.
NextSweepNoClock ==
  \/ \E i \in SweepIds : RunScheduledCheck(i)
  \/ \E i \in SweepIds : SweepSkippedReturn(i)
  \/ \E i \in SweepIds : SweepSelect(i)
  \/ \E i \in SweepIds : SweepNext(i)
  \/ \E p \in SweepIds : CheckResolve(p)
  \/ \E p \in SweepIds : CheckSaveAsin(p)
  \/ \E p \in SweepIds : CheckLastCheckedUnresolved(p)
  \/ \E p \in SweepIds : CheckDiff(p)
  \/ \E p \in SweepIds : CheckCreate(p)
  \/ \E p \in SweepIds : CheckLastChecked(p)
  \/ \E p \in SweepIds : CheckCatch(p)
  \/ \E u \in Users : \E s \in Series : UnfollowSeries(u, s)

FairSweepSpec ==
  /\ InitTrackedWith({Unresolved, Resolved})
  /\ [][NextSweepNoClock]_vars
  /\ \A i \in SweepIds : WF_vars(SweepStep(i))

\* One sweep and one manual check at a time over one tracked series, with
\* unfollow and dismiss requests: the races of the two checks on the store.
NextRace ==
  \/ RunScheduledCheck("cron")
  \/ SweepSelect("cron")
  \/ SweepNext("cron")
  \/ \E p \in {"cron"} \cup ManualIds : CheckResolve(p)
  \/ \E p \in {"cron"} \cup ManualIds : CheckSaveAsin(p)
  \/ \E p \in {"cron"} \cup ManualIds : CheckLastCheckedUnresolved(p)
  \/ \E p \in {"cron"} \cup ManualIds : CheckDiff(p)
  \/ \E p \in {"cron"} \cup ManualIds : CheckCreate(p)
  \/ \E p \in {"cron"} \cup ManualIds : CheckLastChecked(p)
  \/ \E p \in {"cron"} \cup ManualIds : CheckCatch(p)
  \/ \E m \in ManualIds : \E id \in 1..MaxTsId : ManualCheck(m, id)
  \/ \E m \in ManualIds : ManualFind(m)
  \/ \E m \in ManualIds : ManualReturn(m)
  \/ \E u \in Users : \E s \in Series : UnfollowSeries(u, s)
  \/ \E u \in Users : \E id \in 1..MaxRelId : DismissRelease(u, id)
  \/ \E u \in Users : DismissAllReleases(u)

RaceSpec == InitTrackedWith({Unresolved}) /\ [][NextRace]_vars

\* The follow and unfollow requests of one user from an empty database, two
\* requests at a time, with the manual checks they start.
Followers == {"u1"}

NextFollow ==
  \/ \E f \in FollowIds : \E u \in Followers : \E s \in Series : \E g \in Regions :
       FollowSeries(f, u, s, g)
  \/ \E f \in FollowIds : FollowCreateLookup(f)
  \/ \E f \in FollowIds : FollowCreate(f)
  \/ \E u \in Followers : \E s \in Series : UnfollowSeries(u, s)
  \/ \E m \in ManualIds : \E id \in 1..MaxTsId : ManualCheck(m, id)
  \/ \E m \in ManualIds : ManualFind(m)
  \/ \E m \in ManualIds : ManualReturn(m)
  \/ \E p \in ManualIds : CheckResolve(p)
  \/ \E p \in ManualIds : CheckSaveAsin(p)
  \/ \E p \in ManualIds : CheckLastCheckedUnresolved(p)
  \/ \E p \in ManualIds : CheckDiff(p)
  \/ \E p \in ManualIds : CheckCreate(p)
  \/ \E p \in ManualIds : CheckLastChecked(p)
  \/ \E p \in ManualIds : CheckCatch(p)

FollowSpec == Init /\ [][NextFollow]_vars

\* getNewReleasesForSeries as a function of its inputs: the tracked series,
\* the list getSeriesBooksByAsin returned (an entry may lack its ASIN) and the
\* releases already recorded.
ProbeListings ==
  SeqsUpTo({ [asin |-> a] : a \in ProviderAsins \cup {NoAsin} }, MaxListing)

\* The contents of newReleases that checks of the series 2 and 3 can leave.
RecordedReleases ==
  LET keys == { << t, a >> : t \in {2, 3}, a \in ProviderAsins }
      lists == { q \in SeqsUpTo(keys, MaxRelId) : \A i, j \in DOMAIN q : i # j => q[i] # q[j] }
  IN { { [id |-> i, trackedSeriesId |-> q[i][1], asin |-> q[i][2], dismissed |-> FALSE]
          : i \in DOMAIN q } : q \in lists }

InitDiff ==
  /\ now = 0
  /\ trackedSeries = {Unresolved, Resolved, ResolvedNotOwned}
  /\ newReleases \in RecordedReleases
  /\ nextTsId = 4
  /\ nextRelId = Cardinality(newReleases) + 1
  /\ isRunning = FALSE
  /\ checkQueue = << >>
  /\ cronTask = 0
  /\ cronJobs = {}
  /\ lastLog = "none"
  /\ sweep = [i \in SweepIds |-> IdleSweep]
  /\ check = [p \in Procs |-> IdleCheck]
  /\ follow = [f \in FollowIds |-> IdleFollow]
  /\ probe = NoProbe

\* One call of getNewReleasesForSeries.
GetNewReleasesProbe ==
  /\ \E ts \in trackedSeries :
       \E externalBooks \in (IF GetSeriesBooksByAsin(ts.seriesAsin) = { << >> }
                               THEN { << >> } ELSE ProbeListings) :
         probe' = [fn |-> "getNewReleasesForSeries", ts |-> ts,
                   externalBooks |-> externalBooks,
                   result |-> GetNewReleasesForSeries(ts, externalBooks)]
  /\ UNCHANGED << now, store, isRunning, checkQueue, cronTask, cronJobs, lastLog,
                  sweep, check, follow >>

NextDiff == GetNewReleasesProbe

DiffSpec == InitDiff /\ [][NextDiff]_vars

\* getDueForCheck as a function of the table, the threshold and the limit,
\* and the selection of a sweep. The tracked series were last checked 12, 24
\* or 48 hours ago, or never.
AgesHours == {12, 24, 48}

DueTimes == {NeverChecked} \cup { MaxTicks * HoursPerTick - h : h \in AgesHours }

\* Largest limit passed to getDueForCheck besides the sweep's own.
MaxLimit == 2

\* A tracked series at each of the times, or not in the table.
Histories(row) == { {} } \cup { { [row EXCEPT !.lastChecked = t] } : t \in DueTimes }

InitDue ==
  /\ now = MaxTicks
  /\ \E a \in Histories(Unresolved), b \in Histories(Resolved), c \in Histories(ResolvedNotOwned) :
       trackedSeries = a \cup b \cup c
  /\ newReleases = {}
  /\ nextTsId = 4
  /\ nextRelId = 1
  /\ isRunning = FALSE
  /\ checkQueue = << >>
  /\ cronTask = 0
  /\ cronJobs = {}
  /\ lastLog = "none"
  /\ sweep = [i \in SweepIds |-> IdleSweep]
  /\ check = [p \in Procs |-> IdleCheck]
  /\ follow = [f \in FollowIds |-> IdleFollow]
  /\ probe = NoProbe

\* One call of getDueForCheck: with the threshold of the sweep or with the
\* present time (every checked series is due), and a limit.
GetDueForCheckProbe ==
  /\ \E thresholdDate \in {Clock - ThresholdHours, Clock} :
       \E limit \in (1..MaxLimit) \cup {BatchLimit} :
         \E q \in GetDueForCheck(thresholdDate, limit) :
           probe' = [fn |-> "getDueForCheck", thresholdDate |-> thresholdDate,
                     limit |-> limit, result |-> q]
  /\ UNCHANGED << now, store, isRunning, checkQueue, cronTask, cronJobs, lastLog,
                  sweep, check, follow >>

\* The calls of getDueForCheck and a sweep up to its selection.
NextDue ==
  \/ GetDueForCheckProbe
  \/ RunScheduledCheck("cron")
  \/ SweepSelect("cron")

DueSpec == InitDue /\ [][NextDue]_vars

\* --------------------------------------------------------- Audible provider
\* this.regionMap: the top-level domain of each supported region; NoTld
\* stands for the undefined a lookup of any other key gives.
NoTld == "undefined"
RegionTld(region) ==
  CASE region = "us" -> ".com"
    [] region = "ca" -> ".ca"
    [] region = "uk" -> ".co.uk"
    [] region = "au" -> ".com.au"
    [] region = "fr" -> ".fr"
    [] region = "de" -> ".de"
    [] region = "jp" -> ".co.jp"
    [] region = "it" -> ".it"
    [] region = "in" -> ".in"
    [] region = "es" -> ".es"
    [] OTHER -> NoTld

\* The ways a request fails: axios rejects on a timeout, on a non-success
\* status and on a network error.
Failures == {"timeout", "status", "network"}

\* The outcome of a call: the value it returns, the requests it issued in
\* order, the log entries it wrote, and whether it threw.
Out(result, requests, logs, threw) ==
  [result |-> result, requests |-> requests, logs |-> logs, threw |-> threw]

\* A request: the endpoint, the host (the audnex host, or the audible host
\* with its top-level domain), the identifier in the path and the region
\* query parameter (Null when the URL carries none).
Request(endpoint, host, id, region) ==
  [endpoint |-> endpoint, host |-> host, id |-> id, region |-> region]

AudnexHost == "api.audnex.us"
AudibleHost(tld) == <<"api.audible", tld>>

\* The value asinSearch resolves to when there is no book.
NullBook == [asin |-> NoAsin, kind |-> Null]

\* An identifier that is not a string (a number in a provider payload).
NumericAsin == <<"number">>

\* The audnex answer for an identifier: the catalog holds well-formed
\* identifiers only and answers 404 to any other path.
BookResponse(net, id) ==
  IF id \in DOMAIN net.book THEN net.book[id] ELSE "status"

\* The payloads of the book endpoint that carry an asin: a book without a
\* series, a book with a primary series, and a book whose series position is
\* a number instead of a string.
BookKinds == {"plain", "primary", "bad"}

\* asinSearch(asin, region, timeout)
AsinSearch(asin, region, net) ==
  IF asin = NoAsin THEN Out(NullBook, << >>, {}, FALSE)
  ELSE IF asin = NumericAsin THEN Out(NullBook, << >>, {}, TRUE)
  ELSE
    LET id == ToUpperCase(asin)
        resp == BookResponse(net, id)
    IN  Out(IF resp \in BookKinds THEN [asin |-> id, kind |-> resp] ELSE NullBook,
            << Request("book", AudnexHost, id, region) >>,
            IF resp \in Failures THEN {"asin search error"} ELSE {},
            FALSE)

\* cleanResult throws when cleanSeriesSequence is handed a position that is
\* not a string.
CleanResultThrows(item) == item.kind = "bad"

\* cleanResult(item): the identifier and the series entries of the item.
CleanResult(item) ==
  [asin |-> item.asin,
   series |-> IF item.kind = "primary" THEN << <<"S", "1">> >> ELSE << >>]

\* The value `!asin || !isValidASIN(asin.toUpperCase())` negates: the
\* identifier is present and well formed.
HasAnyAsin(asin) == asin # NoAsin
HasValidAsin(asin) == asin # NoAsin /\ IsValidASIN(ToUpperCase(asin))

\* `if (region && !this.regionMap[region])`: a region outside the table.
IsUnknownRegion(region) == region # Null /\ RegionTld(region) = NoTld

\* `this.regionMap[region] || '.com'`
TldOrCom(region) == IF RegionTld(region) = NoTld THEN ".com" ELSE RegionTld(region)

\* A try block whose catch logs the error and returns a default.
NotCaught(out, default, log) == out
Caught(out, default, log) ==
  IF out.threw THEN Out(default, out.requests, out.logs \cup {log}, FALSE) ELSE out

\* products.map((product) => this.asinSearch(product.asin, region, timeout)):
\* the lookups start in order; a lookup that throws ends the map, the
\* requests already issued stay issued.
RECURSIVE ProductLookups(_, _, _)
ProductLookups(products, region, net) ==
  IF products = << >> THEN Out(<< >>, << >>, {}, FALSE)
  ELSE
    LET head == AsinSearch(Head(products), region, net) IN
    IF head.threw THEN Out(<< >>, << >>, {}, TRUE)
    ELSE
      LET rest == ProductLookups(Tail(products), region, net)
      IN  Out(<< head.result >> \o rest.result,
              head.requests \o rest.requests,
              head.logs \cup rest.logs,
              rest.threw)

\* booksWithDetails.filter(Boolean).map((item) => this.cleanResult(item))
RECURSIVE CleanAll(_)
CleanAll(items) ==
  IF items = << >> THEN Out(<< >>, << >>, {}, FALSE)
  ELSE IF Head(items) = NullBook THEN CleanAll(Tail(items))
  ELSE IF CleanResultThrows(Head(items)) THEN Out(<< >>, << >>, {}, TRUE)
  ELSE LET rest == CleanAll(Tail(items))
       IN  Out(<< CleanResult(Head(items)) >> \o rest.result, << >>, {}, rest.threw)

\* The try block of getSeriesBooks, for the upper-cased identifier and the
\* region after the downgrade.
GetSeriesBooksTry(asin, region, net) ==
  LET sims == << Request("sims", AudibleHost(TldOrCom(region)), asin, Null) >> IN
  IF net.sims.kind \in Failures THEN Out(<< >>, sims, {}, TRUE)
  ELSE IF net.sims.kind = "garbage" THEN Out(<< >>, sims, {}, FALSE)
  ELSE IF net.sims.kind = "notarray" THEN Out(<< >>, sims, {}, TRUE)
  ELSE
    LET details == ProductLookups(net.sims.products, region, net) IN
    IF details.threw THEN Out(<< >>, sims \o details.requests, details.logs, TRUE)
    ELSE
      LET originalBook == AsinSearch(asin, region, net)
          booksWithDetails ==
            IF originalBook.result # NullBook
              THEN << originalBook.result >> \o details.result
              ELSE details.result
          cleaned == CleanAll(booksWithDetails)
      IN  Out(cleaned.result,
              sims \o details.requests \o originalBook.requests,
              details.logs \cup originalBook.logs,
              cleaned.threw)

\* getSeriesBooks(asin, region, timeout)
GetSeriesBooks(asin, region, net) ==
  IF asin = NumericAsin THEN Out(<< >>, << >>, {}, TRUE)
  ELSE IF ~HasValidAsin(asin) THEN Out(<< >>, << >>, {"invalid asin"}, FALSE)
  ELSE
    LET downgraded == IF IsUnknownRegion(region) THEN "us" ELSE region
        out == Caught(GetSeriesBooksTry(ToUpperCase(asin), downgraded, net),
                      << >>, "series books error")
    IN  IF IsUnknownRegion(region)
          THEN [out EXCEPT !.logs = @ \cup {"invalid region"}]
          ELSE out

\* An entry of product.relationships, and the undefined that find gives when
\* no entry matches.
Relation(to, type, asin) == [to |-> to, type |-> type, asin |-> asin]
NoRelation == Relation(Null, Null, NoAsin)

\* relationships.find(pred): the first entry that satisfies pred.
\* matches holds the indices of the entries that satisfy pred.
Find(relationships, matches) ==
  IF matches = {} THEN NoRelation
  ELSE relationships[CHOOSE i \in matches : \A j \in matches : i <= j]

\* A lookup of the child book that takes the first relationship of any kind.
FirstRelationship(relationships) ==
  IF relationships = << >> THEN NoRelation ELSE Head(relationships)

\* relationships.find(r => r.relationship_to_product === 'child' &&
\*                         r.relationship_type === 'series')
ChildBook(relationships) ==
  Find(relationships,
       { i \in DOMAIN relationships :
           relationships[i].to = "child" /\ relationships[i].type = "series" })

\* The try block of getBooksBySeriesAsin, for the upper-cased identifier and
\* the region after the downgrade.
GetBooksBySeriesAsinTry(seriesAsin, region, net) ==
  LET lookup == << Request("relationships", AudibleHost(TldOrCom(region)),
                           seriesAsin, Null) >>
  IN
  IF net.rel.kind \in Failures THEN Out(<< >>, lookup, {}, TRUE)
  ELSE IF net.rel.kind = "notarray" THEN Out(<< >>, lookup, {}, TRUE)
  ELSE
    LET relationships ==
          IF net.rel.kind = "garbage" THEN << >> ELSE net.rel.relationships
        childBook == ChildBook(relationships)
    IN  IF childBook.asin = NoAsin THEN Out(<< >>, lookup, {}, FALSE)
        ELSE LET books == GetSeriesBooks(childBook.asin, region, net)
             IN  Out(books.result, lookup \o books.requests, books.logs, books.threw)

\* getBooksBySeriesAsin(seriesAsin, region, timeout)
GetBooksBySeriesAsin(seriesAsin, region, net) ==
  IF ~HasValidAsin(seriesAsin) THEN Out(<< >>, << >>, {"invalid asin"}, FALSE)
  ELSE
    LET downgraded == IF IsUnknownRegion(region) THEN "us" ELSE region
        out == Caught(GetBooksBySeriesAsinTry(ToUpperCase(seriesAsin), downgraded, net),
                      << >>, "books by series error")
    IN  IF IsUnknownRegion(region)
          THEN [out EXCEPT !.logs = @ \cup {"invalid region"}]
          ELSE out

\* The series information of a book ({ asin, name, position }) and the null
\* that stands for none.
SeriesInfo(asin, position) == [asin |-> asin, position |-> position]
NullSeriesInfo == SeriesInfo(NoAsin, Null)

\* The try block of getSeriesInfoFromAudible: product.series[0] first, then
\* the first relationship of type series; a sequence that is not a string
\* makes cleanSeriesSequence throw.
GetSeriesInfoFromAudibleTry(asin, region, net) ==
  LET graph == << Request("graph", AudibleHost(TldOrCom(region)), asin, Null) >>
  IN
  CASE net.graph.kind \in Failures -> Out(NullSeriesInfo, graph, {}, TRUE)
    [] net.graph.kind = "garbage" -> Out(NullSeriesInfo, graph, {}, FALSE)
    [] net.graph.kind = "series" -> Out(SeriesInfo(<<"S", "1">>, "1"), graph, {}, FALSE)
    [] net.graph.kind = "badsequence" -> Out(NullSeriesInfo, graph, {}, TRUE)
    [] net.graph.kind = "notarray" -> Out(NullSeriesInfo, graph, {}, TRUE)
    [] net.graph.kind = "relationships" ->
         LET seriesRelation ==
               Find(net.graph.relationships,
                    { i \in DOMAIN net.graph.relationships :
                        net.graph.relationships[i].type = "series" })
         IN  IF seriesRelation.asin # NoAsin
               THEN Out(SeriesInfo(seriesRelation.asin, "1"), graph, {}, FALSE)
               ELSE Out(NullSeriesInfo, graph, {}, FALSE)

\* getSeriesInfoFromAudible(asin, region = 'us', timeout)
GetSeriesInfoFromAudible(asin, region, net) ==
  IF ~HasValidAsin(asin) THEN Out(NullSeriesInfo, << >>, {}, FALSE)
  ELSE Caught(GetSeriesInfoFromAudibleTry(ToUpperCase(asin), region, net),
              NullSeriesInfo, "series info error")

\* ------------------------------------------------- SeriesFinder, by request
\* extractSeriesInfo(bookData): the primary series of the book; a position
\* that is not a string makes cleanSeriesSequence throw.
ExtractSeriesInfo(bookData) ==
  CASE bookData.kind = "primary" -> Out(SeriesInfo(<<"S", "1">>, "1"), << >>, {}, FALSE)
    [] bookData.kind = "bad" -> Out(NullSeriesInfo, << >>, {}, TRUE)
    [] OTHER -> Out(NullSeriesInfo, << >>, {}, FALSE)

\* SeriesFinder.findSeriesAsinFromBook(bookAsin, region)
FindSeriesAsinFromBook(bookAsin, region, net) ==
  IF ~HasValidAsin(bookAsin) THEN Out(NullSeriesInfo, << >>, {}, FALSE)
  ELSE
    LET bookData == AsinSearch(bookAsin, region, net)
        seriesInfo == ExtractSeriesInfo(bookData.result)
    IN
    IF bookData.result = NullBook
      THEN Out(NullSeriesInfo, bookData.requests, bookData.logs, FALSE)
    ELSE IF seriesInfo.threw
      THEN Out(NullSeriesInfo, bookData.requests, bookData.logs, TRUE)
    ELSE IF seriesInfo.result # NullSeriesInfo
      THEN Out(seriesInfo.result, bookData.requests, bookData.logs, FALSE)
    ELSE
      LET direct == GetSeriesInfoFromAudible(bookAsin, region, net)
      IN  Out(direct.result, bookData.requests \o direct.requests,
              bookData.logs \cup direct.logs, direct.threw)

\* The local series Database.seriesModel.findByPk finds.
LocalSeries == {"s1", "s2", "s3"}

\* A loop over the library books that goes on after a book has resolved: the
\* first series found is returned once every book has been looked up.
RECURSIVE FindFromBooksTriesAll(_, _, _)
FindFromBooksTriesAll(books, region, net) ==
  IF books = << >> THEN Out(NoAsin, << >>, {}, FALSE)
  ELSE IF ~HasValidAsin(Head(books)) THEN FindFromBooksTriesAll(Tail(books), region, net)
  ELSE
    LET seriesInfo == FindSeriesAsinFromBook(Head(books), region, net)
        rest == FindFromBooksTriesAll(Tail(books), region, net)
    IN  IF seriesInfo.threw
          THEN Out(NoAsin, seriesInfo.requests, seriesInfo.logs, TRUE)
          ELSE Out(IF seriesInfo.result.asin # NoAsin
                     THEN seriesInfo.result.asin ELSE rest.result,
                   seriesInfo.requests \o rest.requests,
                   seriesInfo.logs \cup rest.logs, rest.threw)

\* The loop of findSeriesAsinFromLibrary over the books of the series: the
\* first series ASIN a book with a well-formed identifier resolves to.
RECURSIVE FindFromBooks(_, _, _)
FindFromBooks(books, region, net) ==
  IF books = << >> THEN Out(NoAsin, << >>, {}, FALSE)
  ELSE IF ~HasValidAsin(Head(books)) THEN FindFromBooks(Tail(books), region, net)
  ELSE
    LET seriesInfo == FindSeriesAsinFromBook(Head(books), region, net) IN
    IF seriesInfo.threw \/ seriesInfo.result.asin # NoAsin
      THEN Out(seriesInfo.result.asin, seriesInfo.requests, seriesInfo.logs,
               seriesInfo.threw)
    ELSE
      LET rest == FindFromBooks(Tail(books), region, net)
      IN  Out(rest.result, seriesInfo.requests \o rest.requests,
              seriesInfo.logs \cup rest.logs, rest.threw)

\* SeriesFinder.findSeriesAsinFromLibrary(seriesId, region), request by request.
FindSeriesAsinFromLibraryCalls(seriesId, region, net) ==
  IF seriesId \notin LocalSeries THEN Out(NoAsin, << >>, {}, FALSE)
  ELSE FindFromBooks(LibraryAsins(seriesId), region, net)

\* ------------------------------------------------- calls of the provider
\* One call of an operation of the catalog client or of the resolver, for
\* every identifier, region and provider behaviour below.
ProbeRegions == {Null, "us", "de", "zz"}

\* Identifiers passed by a caller: none, well formed in either case, and not
\* well formed.
ProbeAsins == {NoAsin, <<"B", "1">>, <<"b", "1">>, <<"B", "?">>}
ProbeSeriesAsins == {NoAsin, <<"s", "1">>, <<"S", "?">>}
ProbeSeriesIds == LocalSeries \cup {"s9"}

\* The identifiers the audnex catalog holds.
ValidBookIds == {<<"B", "1">>, <<"B", "2">>}

\* What audnex answers for each of them.
BookResponses == Failures \cup {"garbage"} \cup BookKinds
BookResponsesFew == {"timeout", "garbage"} \cup BookKinds

\* The asin of an entry of similar_products: missing, well formed, not well
\* formed, or not a string.
ProductAsins == {NoAsin, <<"b", "2">>, <<"B", "?">>, NumericAsin}

\* Longest similar_products list.
MaxProducts == 2

ProductLists == UNION { [1..n -> ProductAsins] : n \in 0..MaxProducts }

Response(kind) == [kind |-> kind, products |-> << >>, relationships |-> << >>]

\* The answers of the similarity endpoint: a failure, a payload without
\* similar_products, one whose similar_products is not an array, or a list.
SimsResponses ==
  { Response(k) : k \in Failures \cup {"garbage", "notarray"} }
    \cup { [Response("products") EXCEPT !.products = l] : l \in ProductLists }

\* The relationship lists of a series product.
SeriesRelationships ==
  { << >>,
    << Relation("parent", "series", <<"S", "2">>) >>,
    << Relation("child", "season", <<"B", "2">>) >>,
    << Relation("child", "series", NoAsin) >>,
    << Relation("child", "series", <<"b", "1">>) >>,
    << Relation("parent", "series", <<"S", "2">>),
       Relation("child", "series", <<"B", "1">>) >>,
    << Relation("child", "series", <<"B", "?">>) >>,
    << Relation("child", "series", NumericAsin) >> }

\* The answers of the relationships lookup of a series.
RelResponses ==
  { Response(k) : k \in Failures \cup {"garbage", "notarray"} }
    \cup { [Response("relationships") EXCEPT !.relationships = l] :
             l \in SeriesRelationships }

\* The relationship lists of a book product without a series entry.
BookRelationships ==
  { << >>,
    << Relation("child", "season", <<"B", "2">>) >>,
    << Relation("parent", "series", NoAsin) >>,
    << Relation("child", "season", <<"B", "2">>),
       Relation("parent", "series", <<"S", "2">>) >> }

\* The answers of the series,relationships lookup of a book.
GraphResponses ==
  { Response(k) : k \in Failures \cup {"garbage", "series", "badsequence", "notarray"} }
    \cup { [Response("relationships") EXCEPT !.relationships = l] :
             l \in BookRelationships }

\* The provider as a call sees it; an endpoint the call is not expected to
\* reach times out.
Net(book, sims, rel, graph) == [book |-> book, sims |-> sims, rel |-> rel, graph |-> graph]
NoBooks == [id \in ValidBookIds |-> "timeout"]
Down == Response("timeout")

Called(fn, arg, region, net, out) ==
  /\ probe' = [fn |-> fn, arg |-> arg, region |-> region, net |-> net, out |-> out]
  /\ UNCHANGED << now, store, isRunning, checkQueue, cronTask, cronJobs, lastLog,
                  sweep, check, follow >>

AsinSearchProbe ==
  /\ probe = NoProbe
  /\ \E asin \in ProbeAsins, region \in ProbeRegions, book \in [ValidBookIds -> BookResponses] :
       LET net == Net(book, Down, Down, Down)
       IN  Called("asinSearch", asin, region, net, AsinSearch(asin, region, net))

GetSeriesBooksProbe ==
  /\ probe = NoProbe
  /\ \E asin \in ProbeAsins, region \in ProbeRegions, sims \in SimsResponses,
        book \in [ValidBookIds -> BookResponsesFew] :
       LET net == Net(book, sims, Down, Down)
       IN  Called("getSeriesBooks", asin, region, net, GetSeriesBooks(asin, region, net))

GetBooksBySeriesAsinProbe ==
  /\ probe = NoProbe
  /\ \E seriesAsin \in ProbeSeriesAsins, region \in ProbeRegions, rel \in RelResponses,
        sims \in SimsResponses, book \in [ValidBookIds -> BookResponsesFew] :
       LET net == Net(book, sims, rel, Down)
       IN  Called("getBooksBySeriesAsin", seriesAsin, region, net,
                  GetBooksBySeriesAsin(seriesAsin, region, net))

GetSeriesInfoFromAudibleProbe ==
  /\ probe = NoProbe
  /\ \E asin \in ProbeAsins, region \in ProbeRegions, graph \in GraphResponses :
       LET net == Net(NoBooks, Down, Down, graph)
       IN  Called("getSeriesInfoFromAudible", asin, region, net,
                  GetSeriesInfoFromAudible(asin, region, net))

FindSeriesAsinFromBookProbe ==
  /\ probe = NoProbe
  /\ \E asin \in ProbeAsins, region \in ProbeRegions, graph \in GraphResponses,
        book \in [ValidBookIds -> BookResponses] :
       LET net == Net(book, Down, Down, graph)
       IN  Called("findSeriesAsinFromBook", asin, region, net,
                  FindSeriesAsinFromBook(asin, region, net))

FindSeriesAsinFromLibraryProbe ==
  /\ probe = NoProbe
  /\ \E seriesId \in ProbeSeriesIds, region \in ProbeRegions, graph \in GraphResponses,
        book \in [ValidBookIds -> BookResponses] :
       LET net == Net(book, Down, Down, graph)
       IN  Called("findSeriesAsinFromLibrary", seriesId, region, net,
                  FindSeriesAsinFromLibraryCalls(seriesId, region, net))

NextCatalog ==
  \/ AsinSearchProbe
  \/ GetSeriesBooksProbe
  \/ GetBooksBySeriesAsinProbe
  \/ GetSeriesInfoFromAudibleProbe
  \/ FindSeriesAsinFromBookProbe
  \/ FindSeriesAsinFromLibraryProbe

CatalogSpec == Init /\ [][NextCatalog]_vars

\* TRUE throughout CatalogSpec: every call has returned or thrown.
CatalogTypeOK == probe = NoProbe \/ probe.out.threw \in BOOLEAN

\* ------------------------------------------------------ cleanSeriesSequence
\* A raw series position is a string, kept as its sequence of characters:
\* digits, the dot, and characters that are neither.
Digits == {"2", "5"}
PositionChars == Digits \cup {".", ",", "a"}

\* Longest raw position.
MaxPositionLen == 4

RawPositions == UNION { [1..n -> PositionChars] : n \in 0..MaxPositionLen }

\* \d+ at index i: the number of digits that follow one another from i on.
RECURSIVE DigitRun(_, _)
DigitRun(str, i) ==
  IF i <= Len(str) /\ str[i] \in Digits THEN 1 + DigitRun(str, i + 1) ELSE 0

\* The pattern without its first alternative: /\d+(?:\.\d+)?/ at index i.
MatchLengthNoLeadingDot(str, i) ==
  LET whole == DigitRun(str, i)
      fraction == IF i + whole <= Len(str) /\ str[i + whole] = "."
                    THEN DigitRun(str, i + whole + 1) ELSE 0
  IN  IF whole = 0 THEN 0
      ELSE IF fraction > 0 THEN whole + 1 + fraction
      ELSE whole

\* /\.\d+|\d+(?:\.\d+)?/ at index i: the length of the match that starts
\* there, 0 when none does. The first alternative is tried first and every
\* quantifier is greedy.
MatchLength(str, i) ==
  IF str[i] = "." /\ DigitRun(str, i + 1) > 0
    THEN 1 + DigitRun(str, i + 1)
    ELSE MatchLengthNoLeadingDot(str, i)

\* sequence.match(pattern): the indices at which a match starts; match takes
\* the leftmost.
MatchStarts(str) == { i \in DOMAIN str : MatchLength(str, i) > 0 }

\* cleanSeriesSequence(seriesName, sequence)
CleanSeriesSequence(sequence) ==
  IF sequence = << >> THEN << >>
  ELSE IF MatchStarts(sequence) = {} THEN sequence
  ELSE LET i == CHOOSE k \in MatchStarts(sequence) :
                  \A j \in MatchStarts(sequence) : k <= j
       IN  SubSeq(sequence, i, i + MatchLength(sequence, i) - 1)

\* One call of cleanSeriesSequence, and a second call on what it returned.
CleanSeriesSequenceProbe ==
  /\ probe = NoProbe
  /\ \E sequence \in RawPositions :
       probe' = [fn |-> "cleanSeriesSequence", sequence |-> sequence,
                 result |-> CleanSeriesSequence(sequence),
                 again |-> CleanSeriesSequence(CleanSeriesSequence(sequence))]
  /\ UNCHANGED << now, store, isRunning, checkQueue, cronTask, cronJobs, lastLog,
                  sweep, check, follow >>

NextSequence == CleanSeriesSequenceProbe

SequenceSpec == Init /\ [][NextSequence]_vars

\* The schedule: init and stop in any order, the tasks firing, and the sweeps
\* they start over one tracked series.
NextLifecycle ==
  \/ Start
  \/ Stop
  \/ \E t \in TaskIds : \E i \in SweepIds : CronFire(t, i)
  \/ \E i \in SweepIds : SweepSkippedReturn(i)
  \/ \E i \in SweepIds : SweepSelect(i)
  \/ \E i \in SweepIds : SweepNext(i)
  \/ \E p \in SweepIds : CheckDiff(p)
  \/ \E p \in SweepIds : CheckCreate(p)
  \/ \E p \in SweepIds : CheckLastChecked(p)
  \/ \E p \in SweepIds : CheckCatch(p)

LifecycleSpec == InitTrackedWith({Resolved}) /\ [][NextLifecycle]_vars

\* Unfollow requests answered, beside manual checks of the two tracked series
\* that record releases.
NextUnfollow ==
  \/ \E u \in Users : \E s \in Series \cup {"s2"} : UnfollowSeriesAnswered(u, s)
  \/ \E m \in ManualIds : \E id \in 1..MaxTsId : ManualCheck(m, id)
  \/ \E m \in ManualIds : ManualFind(m)
  \/ \E m \in ManualIds : ManualReturn(m)
  \/ \E p \in ManualIds : CheckResolve(p)
  \/ \E p \in ManualIds : CheckSaveAsin(p)
  \/ \E p \in ManualIds : CheckLastCheckedUnresolved(p)
  \/ \E p \in ManualIds : CheckDiff(p)
  \/ \E p \in ManualIds : CheckCreate(p)
  \/ \E p \in ManualIds : CheckLastChecked(p)
  \/ \E p \in ManualIds : CheckCatch(p)

UnfollowSpec == InitTrackedWith({Unresolved, Resolved}) /\ [][NextUnfollow]_vars

\* ------------------------------------------------- checks run in succession
\* Checks of one tracked series run one after the other, started by
\* manualCheck or by the sweep, while the provider and the library answer the
\* same every time: the resolver's answer and the listing are fixed when the
\* behaviour starts and kept in probe, together with the number of checks
\* that have finished and whether all of them ran without an error.
MaxRuns == 2

ProviderData(row) ==
  [fn : {"provider"},
   seriesAsin : FindSeriesAsinFromLibrary(row.seriesId),
   listing : Listings,
   runs : {0},
   clean : {TRUE}]

InitSuccession ==
  \E row \in {Unresolved, Resolved} :
    /\ now = 0
    /\ trackedSeries = {row}
    /\ newReleases = {}
    /\ nextTsId = 2
    /\ nextRelId = 1
    /\ isRunning = FALSE
    /\ checkQueue = << >>
    /\ cronTask = 0
    /\ cronJobs = {}
    /\ lastLog = "none"
    /\ sweep = [i \in SweepIds |-> IdleSweep]
    /\ check = [p \in Procs |-> IdleCheck]
    /\ follow = [f \in FollowIds |-> IdleFollow]
    /\ probe \in ProviderData(row)

\* No check and no sweep is under way.
AllQuiet ==
  /\ \A p \in Procs : check[p].pc = "idle"
  /\ \A i \in SweepIds : sweep[i].pc = "idle"

\* The listing getSeriesBooksByAsin returns for an identifier.
FixedListing(seriesAsin) ==
  IF ListingRequested(seriesAsin) THEN probe.listing ELSE << >>

\* One more check has finished (a manualCheck whose findByPk failed has not
\* run the check).
RunFinished(c) ==
  probe' = IF c.ts = NoRow THEN probe
           ELSE [probe EXCEPT !.runs = @ + 1,
                              !.clean = @ /\ ~c.caught /\ ~c.threw]

\* The caller has taken the result of manualCheck.
ManualReturnCounted(m) ==
  /\ check[m].pc = "ret"
  /\ SetCheck(m, IdleCheck)
  /\ RunFinished(check[m])
  /\ UNCHANGED << now, store, isRunning, checkQueue, cronTask, cronJobs, lastLog,
                  sweep, follow >>

\* checkSeriesForNewReleases has returned to the sweep and delay(2000) has
\* elapsed, or the check has thrown into the catch of runScheduledCheck.
SweepNextCounted(i) ==
  /\ sweep[i].pc = "checking"
  /\ check[i].pc = "ret"
  /\ IF check[i].threw
       THEN /\ SweepEnds(i, "error")
            /\ SetCheck(i, IdleCheck)
       ELSE SweepGoesOn(i, sweep[i].queue)
  /\ RunFinished(check[i])
  /\ UNCHANGED << now, store, checkQueue, cronTask, cronJobs, follow >>

NextSuccession ==
  \/ Tick
  \/ /\ AllQuiet
     /\ probe.runs < MaxRuns
     /\ \E id \in TrackedIds : ManualCheck("m1", id)
  \/ /\ AllQuiet
     /\ probe.runs < MaxRuns
     /\ RunScheduledCheck("cron")
  \/ ManualFind("m1")
  \/ SweepSelect("cron")
  \/ \E p \in {"cron", "m1"} : CheckResolveWith(p, {probe.seriesAsin})
  \/ \E p \in {"cron", "m1"} : CheckSaveAsin(p)
  \/ \E p \in {"cron", "m1"} : CheckLastCheckedUnresolved(p)
  \/ \E p \in {"cron", "m1"} : CheckDiffWith(p, {FixedListing(check[p].ts.seriesAsin)})
  \/ \E p \in {"cron", "m1"} : CheckCreate(p)
  \/ \E p \in {"cron", "m1"} : CheckLastChecked(p)
  \/ \E p \in {"cron", "m1"} : CheckCatch(p)
  \/ ManualReturnCounted("m1")
  \/ SweepNextCounted("cron")

SuccessionSpec == InitSuccession /\ [][NextSuccession]_vars

\* ------------------------------------------------ resolutions that differ
\* The identifiers findSeriesAsinFromLibrary may answer for a series whose
\* library books the provider files under more than one series: which book
\* answers first depends on which lookups fail.
SeriesAsinsOfBooks(seriesId) ==
  IF seriesId = "s1" THEN { <<"S", "1">>, <<"S", "2">> } ELSE {}

\* A sweep and a manual check on one tracked series stored without
\* identifier, each with its own answer of the resolver.
NextResolveRace ==
  \/ RunScheduledCheck("cron")
  \/ SweepSelect("cron")
  \/ SweepNext("cron")
  \/ \E m \in ManualIds : \E id \in TrackedIds : ManualCheck(m, id)
  \/ \E m \in ManualIds : ManualFind(m)
  \/ \E m \in ManualIds : ManualReturn(m)
  \/ \E p \in {"cron"} \cup ManualIds :
       CheckResolveWith(p, {NoAsin} \cup SeriesAsinsOfBooks(check[p].ts.seriesId))
  \/ \E p \in {"cron"} \cup ManualIds : CheckSaveAsin(p)
  \/ \E p \in {"cron"} \cup ManualIds : CheckLastCheckedUnresolved(p)
  \/ \E p \in {"cron"} \cup ManualIds : CheckDiff(p)
  \/ \E p \in {"cron"} \cup ManualIds : CheckCreate(p)
  \/ \E p \in {"cron"} \cup ManualIds : CheckLastChecked(p)
  \/ \E p \in {"cron"} \cup ManualIds : CheckCatch(p)

ResolveRaceSpec == InitTrackedWith({Unresolved}) /\ [][NextResolveRace]_vars

\* A sweep and a manual check over two tracked series of two users, with
\* the unfollow request of one of them.
FewListings ==
  { << >>, << [asin |-> <<"B", "2">>] >>,
    << [asin |-> <<"B", "1">>], [asin |-> <<"b", "2">>] >> }

NextTwoSeriesRace ==
  \/ RunScheduledCheck("cron")
  \/ SweepSelect("cron")
  \/ SweepNext("cron")
  \/ \E p \in {"cron"} \cup ManualIds : CheckResolve(p)
  \/ \E p \in {"cron"} \cup ManualIds : CheckSaveAsin(p)
  \/ \E p \in {"cron"} \cup ManualIds : CheckLastCheckedUnresolved(p)
  \/ \E p \in {"cron"} \cup ManualIds : CheckDiffWith(p, FewListings)
  \/ \E p \in {"cron"} \cup ManualIds : CheckCreate(p)
  \/ \E p \in {"cron"} \cup ManualIds : CheckLastChecked(p)
  \/ \E p \in {"cron"} \cup ManualIds : CheckCatch(p)
  \/ \E m \in ManualIds : \E id \in TrackedIds : ManualCheck(m, id)
  \/ \E m \in ManualIds : ManualFind(m)
  \/ \E m \in ManualIds : ManualReturn(m)
  \/ \E s \in Series : UnfollowSeries("u1", s)

TwoSeriesRaceSpec == InitTrackedWith({Unresolved, Resolved}) /\ [][NextTwoSeriesRace]_vars

\* ------------------------------------------------------ dismiss requests
\* A lookup of the release by its id alone.
ReleaseWithId(userId, releaseId) ==
  { r \in newReleases : r.id = releaseId }

\* newReleaseModel.findByPk(releaseId, { include: [{ model: trackedSeries,
\* where: { userId }, required: true }] }): the release, when its tracking
\* belongs to the user.
OwnedRelease(userId, releaseId) ==
  { r \in newReleases :
      /\ r.id = releaseId
      /\ \E t \in trackedSeries : t.id = r.trackedSeriesId /\ t.userId = userId }

\* The rows dismissAllForUser updates: the releases of the user's trackings
\* that are not dismissed yet.
PendingOfUser(userId) ==
  { r \in newReleases :
      /\ ~r.dismissed
      /\ \E t \in trackedSeries : t.id = r.trackedSeriesId /\ t.userId = userId }

\* POST /api/me/new-releases/:id/dismiss with its answer kept in probe: 404
\* 'Release not found' when findByPk found no release of the user, else
\* dismissRelease(releaseId) and success; an error when the UPDATE is rejected.
DismissReleaseAnswered(userId, releaseId) ==
  LET call == [fn |-> "dismissRelease", userId |-> userId, releaseId |-> releaseId,
               dismissed |-> 0]
      release == OwnedRelease(userId, releaseId)
  IN
  /\ IF release = {}
       THEN /\ UNCHANGED newReleases
            /\ probe' = call @@ [status |-> "notFound"]
       ELSE \/ /\ newReleases' = SetDismissed({ r \in newReleases : r.id = releaseId })
               /\ probe' = call @@ [status |-> "success"]
            \/ /\ UNCHANGED newReleases
               /\ probe' = call @@ [status |-> "error"]
  /\ UNCHANGED << now, trackedSeries, nextTsId, nextRelId, isRunning, checkQueue,
                  cronTask, cronJobs, lastLog, sweep, check, follow >>

\* POST /api/me/new-releases/dismiss-all with its answer kept in probe:
\* dismissAllForUser(userId) answers 0 when the user tracks nothing, else the
\* number of rows its UPDATE changed.
DismissAllReleasesAnswered(userId) ==
  LET call == [fn |-> "dismissAllReleases", userId |-> userId, releaseId |-> 0]
      pending == PendingOfUser(userId)
  IN
  /\ \/ /\ newReleases' = SetDismissed(pending)
        /\ probe' = call @@ [dismissed |-> Cardinality(pending), status |-> "success"]
     \/ /\ \E t \in trackedSeries : t.userId = userId
        /\ UNCHANGED newReleases
        /\ probe' = call @@ [dismissed |-> 0, status |-> "error"]
  /\ UNCHANGED << now, trackedSeries, nextTsId, nextRelId, isRunning, checkQueue,
                  cronTask, cronJobs, lastLog, sweep, check, follow >>

\* The tables of releases of the two tracked series: the unique index on
\* (trackedSeriesId, asin) holds, every release belongs to a tracking.
ReleaseRows ==
  [id : 1..MaxRelId, trackedSeriesId : {Unresolved.id, Resolved.id},
   asin : { <<"B", "1">> }, dismissed : BOOLEAN]

ReleaseTables ==
  { t \in SUBSET ReleaseRows :
      \A a, b \in t :
        (a.id = b.id \/ (a.trackedSeriesId = b.trackedSeriesId /\ a.asin = b.asin)) => a = b }

\* Two users who each follow the series, with releases recorded, some of them
\* dismissed already.
InitDismiss ==
  /\ now = 0
  /\ trackedSeries = {Unresolved, Resolved}
  /\ newReleases \in ReleaseTables
  /\ nextTsId = 3
  /\ nextRelId = MaxRelId + 1
  /\ isRunning = FALSE
  /\ checkQueue = << >>
  /\ cronTask = 0
  /\ cronJobs = {}
  /\ lastLog = "none"
  /\ sweep = [i \in SweepIds |-> IdleSweep]
  /\ check = [p \in Procs |-> IdleCheck]
  /\ follow = [f \in FollowIds |-> IdleFollow]
  /\ probe = NoProbe

\* Dismiss requests of both users, for ids that exist and ids that do not,
\* beside unfollow requests.
NextDismiss ==
  \/ \E u \in Users : \E id \in 1..(MaxRelId + 1) : DismissReleaseAnswered(u, id)
  \/ \E u \in Users : DismissAllReleasesAnswered(u)
  \/ \E u \in Users : \E s \in Series : UnfollowSeriesAnswered(u, s)

DismissSpec == InitDismiss /\ [][NextDismiss]_vars

\* ------------------------------------------- the resolver over a library
\* Longest list of library books of a series.
MaxLibraryBooks == 3

\* The identifiers library books carry: none, well formed in either case, and
\* not well formed.
LibraryBookAsins == {NoAsin, <<"b", "1">>, <<"B", "2">>, <<"B", "?">>}

LibraryBookLists == UNION { [1..n -> LibraryBookAsins] : n \in 0..MaxLibraryBooks }

\* One call of findSeriesAsinFromLibrary for a series whose library books are
\* the given list, against a provider that answers each book on its own.
FindFromBooksProbe ==
  /\ probe = NoProbe
  /\ \E books \in LibraryBookLists, region \in {"us", "zz"}, graph \in GraphResponses,
        book \in [ValidBookIds -> BookResponsesFew] :
       LET net == Net(book, Down, Down, graph)
       IN  Called("findFromBooks", books, region, net, FindFromBooks(books, region, net))

NextResolver ==
  \/ FindFromBooksProbe

ResolverSpec == Init /\ [][NextResolver]_vars

\* ------------------------------------- the sources of a series identifier
\* The book record asinSearch resolved to, by its series associations: the
\* identifier of seriesPrimary and of seriesSecondary (NoAsin when the
\* association is missing or carries no asin).
BookRecord(primary, secondary) ==
  [fetched |-> TRUE, primary |-> primary, secondary |-> secondary]

\* The value asinSearch resolves to when the lookup failed or had no data.
NoRecord == [fetched |-> FALSE, primary |-> NoAsin, secondary |-> NoAsin]

BookRecords ==
  { BookRecord(p, s) : p \in {NoAsin, <<"S", "1">>}, s \in {NoAsin, <<"S", "2">>} }

\* An extraction that looks at the secondary association first.
ExtractSecondaryFirst(bookData) ==
  IF bookData = NoRecord THEN NoAsin
  ELSE IF bookData.secondary # NoAsin THEN bookData.secondary
  ELSE bookData.primary

\* extractSeriesInfo(bookData): seriesPrimary?.asin, else seriesSecondary?.asin,
\* else null.
ExtractSeriesAsin(bookData) ==
  IF bookData = NoRecord THEN NoAsin
  ELSE IF bookData.primary # NoAsin THEN bookData.primary
  ELSE IF bookData.secondary # NoAsin THEN bookData.secondary
  ELSE NoAsin

\* The product of the series,relationships lookup: its series entries and its
\* relationships, each with or without an asin.
Product(series, relationships) ==
  [kind |-> "product", series |-> series, relationships |-> relationships]

\* The lookup rejected: a timeout, a non-success status or a network error.
FailedLookups == { [kind |-> f, series |-> << >>, relationships |-> << >>] : f \in Failures }

ProductSeries ==
  { << >>, << NoAsin >>, << <<"S", "3">> >>, << NoAsin, <<"S", "3">> >> }

ProductRelationships ==
  { << >>,
    << Relation("child", "season", <<"S", "5">>) >>,
    << Relation("parent", "series", <<"S", "4">>) >>,
    << Relation("child", "season", <<"S", "5">>), Relation("parent", "series", <<"S", "4">>) >>,
    << Relation("parent", "series", NoAsin), Relation("parent", "series", <<"S", "4">>) >> }

Products == { Product(s, r) : s \in ProductSeries, r \in ProductRelationships }

\* A lookup in the product that takes the relationship first.
SeriesAsinOfProductRelationFirst(product) ==
  LET rel == Find(product.relationships,
                  { i \in DOMAIN product.relationships :
                      product.relationships[i].type = "series" })
  IN  IF rel.asin # NoAsin THEN rel.asin
      ELSE IF product.series # << >> THEN product.series[1]
      ELSE NoAsin

\* The try block of getSeriesInfoFromAudible on the product received:
\* product.series[0].asin, else the asin of the first relationship whose
\* relationship_type is 'series', else null.
SeriesAsinOfProduct(product) ==
  IF product.series # << >> /\ product.series[1] # NoAsin THEN product.series[1]
  ELSE
    LET rel == Find(product.relationships,
                    { i \in DOMAIN product.relationships :
                        product.relationships[i].type = "series" })
    IN  rel.asin

\* findSeriesAsinFromBook(bookAsin, region) against a provider that answers
\* the book lookup with bookData and the series,relationships lookup with
\* graph (a product, or a failure of the request): the identifier returned and
\* the requests issued.
ResolveSeriesFromBook(bookAsin, region, bookData, graph) ==
  IF ~HasValidAsin(bookAsin) THEN Out(NoAsin, << >>, {}, FALSE)
  ELSE
    LET lookup == << Request("book", AudnexHost, ToUpperCase(bookAsin), region) >>
        direct == << Request("graph", AudibleHost(TldOrCom(region)),
                             ToUpperCase(bookAsin), Null) >>
    IN  IF bookData = NoRecord THEN Out(NoAsin, lookup, {}, FALSE)
        ELSE IF ExtractSeriesAsin(bookData) # NoAsin
          THEN Out(ExtractSeriesAsin(bookData), lookup, {}, FALSE)
        ELSE IF graph \in FailedLookups
          THEN Out(NoAsin, lookup \o direct, {"series info error"}, FALSE)
        ELSE Out(SeriesAsinOfProduct(graph), lookup \o direct, {}, FALSE)

\* One call of findSeriesAsinFromBook for every identifier, book record and
\* answer of the series,relationships lookup.
ResolveSeriesFromBookProbe ==
  /\ probe = NoProbe
  /\ \E asin \in ProbeAsins, region \in {"us", "de"},
        bookData \in BookRecords \cup {NoRecord}, graph \in Products \cup FailedLookups :
       Called("resolveSeriesFromBook", asin, region, [book |-> bookData, graph |-> graph],
              ResolveSeriesFromBook(asin, region, bookData, graph))

NextPreference ==
  \/ ResolveSeriesFromBookProbe

PreferenceSpec == Init /\ [][NextPreference]_vars

\* ------------------------------------------- listing the releases recorded
\* Most releases of one tracking.
MaxListed == 2

\* The sequence column of a release: NULL (createNewRelease stores
\* data.sequence || null), or the text cleanSeriesSequence returned for the
\* position the provider gave.
NullMarker == [null |-> TRUE, text |-> << >>]
Marker(text) == [null |-> FALSE, text |-> text]

\* Positions a provider gives: '2', '5', '25', '2.5', '.5', 'a2' and the
\* texts without a number 'a' and 'a,'.
MarkerTexts ==
  { <<"2">>, <<"5">>, <<"2", "5">>, <<"2", ".", "5">>, <<".", "5">>, <<"a", "2">>,
    <<"a">>, <<"a", ",">> }

StoredMarkers ==
  {NullMarker} \cup { Marker(CleanSeriesSequence(raw)) : raw \in MarkerTexts }

DigitValue(c) == IF c = "2" THEN 2 ELSE 5

\* The integer the digits str[i], ..., str[i + n - 1] spell.
RECURSIVE WholeValue(_, _, _)
WholeValue(str, i, n) ==
  IF n = 0 THEN 0 ELSE WholeValue(str, i, n - 1) * 10 + DigitValue(str[i + n - 1])

RECURSIVE PowerOfTen(_)
PowerOfTen(n) == IF n = 0 THEN 1 ELSE 10 * PowerOfTen(n - 1)

\* The values below are kept in thousandths: three decimal places.
Decimals == 3
Unit == PowerOfTen(Decimals)

\* CAST(text AS FLOAT) of SQLite, in units of 1 / Unit: the value of the
\* longest prefix of the text that reads as a number (digits, then a dot and
\* digits), 0.0 when no prefix does.
CastAsFloat(text) ==
  LET whole == DigitRun(text, 1)
      fraction == IF whole + 1 <= Len(text) /\ text[whole + 1] = "."
                    THEN DigitRun(text, whole + 2) ELSE 0
  IN  WholeValue(text, 1, whole) * Unit
        + WholeValue(text, whole + 2, fraction) * PowerOfTen(Decimals - fraction)

\* ORDER BY CAST(sequence AS FLOAT) ASC NULLS LAST: row a may come before row b.
MayPrecede(a, b) ==
  \/ b.sequence.null
  \/ /\ ~a.sequence.null
     /\ CastAsFloat(a.sequence.text) <= CastAsFloat(b.sequence.text)

\* The orders in which findAll may return the rows: every arrangement the
\* ORDER BY allows (rows of equal value come in any order).
Arrangements(rows) ==
  { q \in [1..Cardinality(rows) -> rows] :
      /\ \A i, j \in DOMAIN q : i # j => q[i] # q[j]
      /\ \A i, j \in DOMAIN q : i < j => MayPrecede(q[i], q[j]) }

\* NewRelease.getForTrackedSeries(trackedSeriesId, options): the rows of the
\* tracking, without the dismissed ones unless includeDismissed, ordered.
GetForTrackedSeries(rows, includeDismissed) ==
  Arrangements({ r \in rows : includeDismissed \/ ~r.dismissed })

\* The releases of one tracking, by their sequence markers.
ListedTables ==
  UNION { { { [id |-> i, sequence |-> m[i], dismissed |-> d[i]] : i \in 1..n } :
              m \in [1..n -> StoredMarkers], d \in [1..n -> BOOLEAN] } :
          n \in 0..MaxListed }

\* One call of getForTrackedSeries.
GetForTrackedSeriesProbe ==
  /\ probe = NoProbe
  /\ \E rows \in ListedTables, includeDismissed \in BOOLEAN :
       \E q \in GetForTrackedSeries(rows, includeDismissed) :
         probe' = [fn |-> "getForTrackedSeries", rows |-> rows,
                   includeDismissed |-> includeDismissed, result |-> q]
  /\ UNCHANGED << now, store, isRunning, checkQueue, cronTask, cronJobs, lastLog,
                  sweep, check, follow >>

NextListing ==
  \/ GetForTrackedSeriesProbe

ListingSpec == Init /\ [][NextListing]_vars

\* ------------------------------------------------- sweeps with a full batch
\* The batch of the sweep, scaled down with the table: three tracked series
\* stand for more than 100.
SmallBatch == 1

\* What the provider lists for a series: nothing, or one book.
OneBookListings == { << >>, << [asin |-> <<"B", "2">>] >> }

\* A statement of the store is rejected: the save of a check (the row keeps
\* its pending change, or the error leaves the catch block), or the query of
\* the due series.
StoreFails ==
  \/ \E p \in Procs :
       \/ check[p].pc # "catch" /\ check'[p].pc = "catch" /\ check'[p].dirty # {}
       \/ check[p].pc = "catch" /\ check'[p].threw
  \/ \E i \in SweepIds : sweep[i].pc = "select" /\ lastLog' = "error"

\* The steps of the sweep over a store that answers; the provider may fail.
SteadySweepStep ==
  /\ \/ SweepSelectWith("cron", SmallBatch)
     \/ SweepNext("cron")
     \/ CheckResolve("cron")
     \/ CheckSaveAsin("cron")
     \/ CheckLastCheckedUnresolved("cron")
     \/ CheckDiffWith("cron", OneBookListings)
     \/ CheckCreate("cron")
     \/ CheckLastChecked("cron")
     \/ CheckCatch("cron")
  /\ ~StoreFails

\* The cron trigger, the sweep it starts with a batch smaller than the table,
\* the clock and unfollow requests.
NextSteadySweep ==
  \/ Tick
  \/ RunScheduledCheck("cron")
  \/ SteadySweepStep
  \/ \E u \in Users : \E s \in Series : UnfollowSeries(u, s)

\* The cron task keeps firing and every await of the sweep completes.
SteadySweepSpec ==
  /\ InitTrackedWith({Unresolved, Resolved, ResolvedNotOwned})
  /\ [][NextSteadySweep]_vars
  /\ WF_vars(RunScheduledCheck("cron"))
  /\ WF_vars(SteadySweepStep)

\* ------------------------------------------------------------- properties
\* A sweep is active from the moment it has set isRunning until it clears it.
SweepActive(i) == sweep[i].pc \in {"select", "checking"}

\* C1: at most one sweep is ever between setting and clearing isRunning; the
\* flag is set exactly while a sweep is active, and an invocation that is not
\* active (at rest, or dropped by the guard) holds no list of due series and
\* runs no check.
C1_SingleFlight ==
  /\ Cardinality({ i \in SweepIds : SweepActive(i) }) <= 1
  /\ isRunning <=> \E i \in SweepIds : SweepActive(i)
  /\ \A i \in SweepIds :
       ~SweepActive(i) => sweep[i].queue = << >> /\ check[i].pc = "idle"

\* C1: a second trigger has arrived and has been dropped while the first
\* sweep is checking a series.
C1_Witness ==
  \E i, j \in SweepIds :
    /\ sweep[i].pc = "checking"
    /\ check[i].pc \notin {"idle", "ret"}
    /\ sweep[j].pc = "skipped"

\* C2: a trigger that arrives while isRunning is set returns at once: the
\* step leaves the flag set, the stores, checkQueue, every check and every
\* other invocation as they were, logs the skip line and not the start line;
\* and the dropped invocation does nothing afterwards but return, so that no
\* sweep starts later on its behalf.
C2_DroppedTriggerChangesNothing ==
  [][\A i \in SweepIds :
       /\ (isRunning /\ sweep[i].pc = "idle" /\ sweep'[i] # sweep[i]) =>
            /\ sweep'[i] = [pc |-> "skipped", queue |-> << >>]
            /\ isRunning'
            /\ lastLog' = "skipping"
            /\ UNCHANGED << now, store, checkQueue, check, follow >>
            /\ \A j \in SweepIds \ {i} : sweep'[j] = sweep[j]
       /\ (sweep[i].pc = "skipped" /\ sweep'[i] # sweep[i]) =>
            /\ sweep'[i] = IdleSweep
            /\ UNCHANGED << now, store, isRunning, checkQueue, lastLog, check, follow >>
            /\ \A j \in SweepIds \ {i} : sweep'[j] = sweep[j]
    ]_vars

\* C2: a dropped trigger has logged the skip line while the running sweep,
\* which has already inserted a release, is still at work.
C2_Witness ==
  \E i, j \in SweepIds :
    /\ sweep[j].pc = "skipped"
    /\ lastLog = "skipping"
    /\ isRunning
    /\ check[i].created # << >>

\* C3: every sweep that has set isRunning clears it in the end, whether the
\* loop completes, the selection query fails, or a check throws out of its
\* own catch handler; and a trigger that arrives while the flag is clear
\* starts a new sweep.
C3_FlagEventuallyCleared ==
  /\ isRunning ~> ~isRunning
  /\ [][\A i \in SweepIds :
          /\ (sweep[i].pc = "checking" /\ check[i].threw /\ sweep'[i] # sweep[i]) =>
               (~isRunning' /\ sweep'[i] = IdleSweep)
          /\ (~isRunning /\ sweep[i].pc = "idle" /\ sweep'[i] # sweep[i]) =>
               (isRunning' /\ sweep'[i].pc = "select" /\ lastLog' = "starting")]_vars

\* C3: a sweep has ended in the catch block of runScheduledCheck and the
\* flag is clear again; the check that inserted a release never stored
\* lastChecked, so both of its updates failed and it threw.
C3_Witness ==
  /\ lastLog = "error"
  /\ ~isRunning
  /\ \A i \in SweepIds : sweep[i].pc = "idle"
  /\ \E r \in newReleases : \E t \in trackedSeries :
       t.id = r.trackedSeriesId /\ t.lastChecked = NeverChecked

\* C9: whatever fails inside the check of one series, the sweep goes on to
\* every series it selected: a sweep ends only when its list is exhausted.
C9_SweepChecksEverySelected ==
  [][\A i \in SweepIds :
       (sweep[i].pc = "checking" /\ sweep'[i].pc = "idle") => sweep[i].queue = << >>]_vars

C8_DismissedNeverReverts ==
  [][\A r \in newReleases : \A r2 \in newReleases' :
       (r2.id = r.id /\ r.dismissed) => r2.dismissed]_vars

\* C8: a dismissed row lives on while a later check has inserted another
\* release and a dismiss request for the dismissed row can come again.
C8_Witness ==
  \E r, r2 \in newReleases :
    /\ r.dismissed
    /\ ~r2.dismissed
    /\ r2.id > r.id

\* C10: a manual check that returns a list returns exactly the records it
\* inserted during this call.
C10_ManualReturnsExactlyInserted ==
  \A m \in ManualIds :
    (check[m].pc = "ret" /\ ~check[m].threw) => check[m].ret = check[m].created

\* C6: a follow request for a pair that is already tracked answers with the
\* existing row, the one the first request returned, at once: it inserts no
\* row, changes no field of any row (seriesAsin, region and lastChecked
\* included), and starts no check that could.
C6_FollowAgainReturnsSameRow ==
  [][\A f \in FollowIds :
       (/\ follow[f].pc = "idle"
        /\ follow'[f] # follow[f]
        /\ ~follow'[f].failed
        /\ GetByUserAndSeries(follow'[f].userId, follow'[f].seriesId) # {}) =>
          /\ follow'[f].pc = "idle"
          /\ \E row \in GetByUserAndSeries(follow'[f].userId, follow'[f].seriesId) :
               follow'[f].result = row.id
          /\ ~follow'[f].spawned
          /\ UNCHANGED << trackedSeries, newReleases, nextTsId, nextRelId, check >>]_vars

\* C6: two follow requests of the same pair have been answered with the
\* same row, which a check has stamped in between and which is still the
\* only row.
C6_Witness ==
  \E f, g \in FollowIds : \E row \in trackedSeries :
    /\ f # g
    /\ follow[f].pc = "idle" /\ follow[g].pc = "idle"
    /\ follow[f].result = row.id /\ follow[g].result = row.id
    /\ follow[f].spawned /\ ~follow[g].spawned
    /\ follow[g].seriesAsin = NoAsin
    /\ row.lastChecked # NeverChecked
    /\ Cardinality(trackedSeries) = 1

\* C7: trackedSeries never holds two rows of one (userId, seriesId) pair.
C7_OneRowPerUserAndSeries ==
  \A r1, r2 \in trackedSeries :
    (r1.userId = r2.userId /\ r1.seriesId = r2.seriesId) => r1 = r2

\* C7: two follow requests of one pair both found no row; one has inserted
\* its row and the other is about to INSERT the same pair.
C7_Witness ==
  \E f \in FollowIds :
    /\ follow[f].pc = "create"
    /\ TrackedConflict(follow[f].userId, follow[f].seriesId)

\* C5: getNewReleasesForSeries returns exactly the provider entries that
\* have an identifier whose upper-case form is neither the upper-case form
\* of an owned book's identifier nor that of a release recorded for this
\* tracked series: each such entry once, no other entry, in the provider's
\* order; an empty provider list gives an empty result.
C5_ExactSetDifference ==
  probe.fn = "getNewReleasesForSeries" =>
    LET ext == probe.externalBooks
        res == probe.result
        owned == { ToUpperCase(LibraryAsins(probe.ts.seriesId)[k]) :
                     k \in DOMAIN LibraryAsins(probe.ts.seriesId) }
        recorded == { ToUpperCase(r.asin) :
                        r \in { x \in newReleases : x.trackedSeriesId = probe.ts.id } }
        wanted == { k \in DOMAIN ext :
                      /\ ext[k].asin # NoAsin
                      /\ ToUpperCase(ext[k].asin) \notin owned \cup recorded }
    IN /\ Len(res) = Cardinality(wanted)
       /\ \E f \in [DOMAIN res -> wanted] :
            /\ \A i, j \in DOMAIN res : i < j => f[i] < f[j]
            /\ \A i \in DOMAIN res : res[i] = ext[f[i]]
       /\ ext = << >> => res = << >>

\* C5: the provider listed a book in another letter case than the one
\* recorded, followed by a book that is new: only the second is returned.
C5_Witness ==
  /\ probe.fn = "getNewReleasesForSeries"
  /\ Len(probe.externalBooks) = 2
  /\ Len(probe.result) = 1
  /\ probe.result[1] = probe.externalBooks[2]
  /\ probe.externalBooks[1].asin # NoAsin
  /\ \A r \in newReleases : r.asin # probe.externalBooks[1].asin
  /\ \E r \in newReleases :
       /\ r.trackedSeriesId = probe.ts.id
       /\ ToUpperCase(r.asin) = ToUpperCase(probe.externalBooks[1].asin)

\* The steps of one invocation of manualCheck once it is called.
ManualStep(m) ==
  \/ ManualFind(m)
  \/ CheckResolve(m)
  \/ CheckSaveAsin(m)
  \/ CheckLastCheckedUnresolved(m)
  \/ CheckDiff(m)
  \/ CheckCreate(m)
  \/ CheckLastChecked(m)
  \/ CheckCatch(m)
  \/ ManualReturn(m)

\* C11: a manual check is never blocked or dropped by a sweep and never
\* touches isRunning: whatever the flag, manualCheck can be called and each
\* of its awaits can complete, its steps leave isRunning, the sweep and the
\* log line of the scheduler as they were; and a trigger that finds the flag
\* clear starts a sweep whether or not a manual check is in progress.
C11_ManualOutsideTheGuard ==
  /\ [](\A m \in ManualIds :
          IF check[m].pc = "idle"
            THEN \A id \in 1..MaxTsId : ENABLED ManualCheck(m, id)
            ELSE ENABLED ManualStep(m))
  /\ [][\A m \in ManualIds :
          /\ check'[m] # check[m] => UNCHANGED << isRunning, sweep, lastLog, checkQueue >>
          /\ \A i \in SweepIds :
               (~isRunning /\ sweep[i].pc = "idle" /\ sweep'[i] # sweep[i]) =>
                  (isRunning' /\ sweep'[i].pc = "select")]_vars

\* C11: while the sweep is checking a series under the flag, a manual check
\* of the same series has inserted a release.
C11_Witness ==
  \E m \in ManualIds : \E i \in SweepIds :
    /\ isRunning
    /\ sweep[i].pc = "checking"
    /\ check[i].pc \in {"diff", "create", "lc"}
    /\ check[m].ts.id = check[i].ts.id
    /\ check[m].created # << >>

\* The notification of the releases a check created has thrown: the check
\* is in its catch block with lastChecked already stored.
NotifyFailed(p) ==
  /\ check[p].pc = "catch"
  /\ check[p].created # << >>
  /\ check[p].dirty = {}

\* C12: a failure of the notification leaves the core's state as a
\* successful delivery does: the step in which it fails stores lastChecked
\* like the successful one and writes no release; the catch block that
\* follows, when its own update goes through, stores lastChecked again,
\* keeps every release and returns without throwing; and the sweep then goes
\* on to the next series of its list.
C12_NotifyFailureLeavesState ==
  [][\A p \in SweepIds :
       /\ (check[p].pc = "lc" /\ check'[p].pc = "catch" /\ check'[p].dirty = {}) =>
            /\ UNCHANGED newReleases
            /\ trackedSeries' = SaveRow(Touch(check[p]).ts, {"lastChecked"})
            /\ \A r \in trackedSeries' : r.id = check[p].ts.id => r.lastChecked = Clock
       /\ (NotifyFailed(p) /\ check'[p] # check[p] /\ ~check'[p].threw) =>
            /\ UNCHANGED newReleases
            /\ \A r \in trackedSeries' : r.id = check[p].ts.id => r.lastChecked = Clock
            /\ check'[p].pc = "ret"
       /\ (sweep[p].pc = "checking" /\ check[p].pc = "ret" /\ ~check[p].threw
             /\ sweep[p].queue # << >> /\ sweep'[p] # sweep[p]) =>
            /\ sweep'[p] = [pc |-> "checking", queue |-> Tail(sweep[p].queue)]
            /\ check'[p].ts = Head(sweep[p].queue)
            /\ isRunning'
    ]_vars

\* C12: in a sweep, the notification of a created release has failed while
\* another series is still waiting in the list.
C12_Witness ==
  \E p \in SweepIds :
    /\ NotifyFailed(p)
    /\ sweep[p].pc = "checking"
    /\ sweep[p].queue # << >>
    /\ \E r \in newReleases : r.id \in Range(check[p].created)

\* The series a sweep has selected: the one in check and the rest of the list.
Selected(i) == << check[i].ts >> \o sweep[i].queue

\* q is a selection of the table for the threshold and the limit: rows of
\* the table, each once, each never checked or checked before the threshold;
\* no more than the limit, and all the due rows when they fit; every due row
\* left out was checked no earlier than every row taken.
IsDueSelection(q, thresholdDate, limit) ==
  LET due == { r \in trackedSeries :
                 r.lastChecked = NeverChecked \/ r.lastChecked < thresholdDate }
  IN /\ \A k \in DOMAIN q : q[k] \in due
     /\ \A j, k \in DOMAIN q : j # k => q[j] # q[k]
     /\ Len(q) <= limit
     /\ Len(q) < limit => Range(q) = due
     /\ \A r \in due \ Range(q) : \A k \in DOMAIN q :
          q[k].lastChecked # NeverChecked =>
            (r.lastChecked # NeverChecked /\ q[k].lastChecked <= r.lastChecked)

\* C13: getDueForCheck returns only rows whose lastChecked is null or older
\* than the threshold, at most limit of them, and the oldest ones (nulls
\* counted as oldest) when more are due; a sweep checks a selection for the
\* threshold of 24 hours before the present and the limit 100.
C13_DueSelection ==
  /\ probe.fn = "getDueForCheck" =>
       IsDueSelection(probe.result, probe.thresholdDate, probe.limit)
  /\ \A i \in SweepIds :
       sweep[i].pc = "checking" =>
         IsDueSelection(Selected(i), Clock - 24, 100)

\* C13: three series are due and the limit is two: a never-checked series
\* and the older of the two checked ones are returned.
C13_Witness ==
  /\ probe.fn = "getDueForCheck"
  /\ probe.limit = 2
  /\ Len(probe.result) = 2
  /\ Cardinality({ r \in trackedSeries : r.lastChecked < probe.thresholdDate }) = 3
  /\ \E r \in trackedSeries : r.lastChecked = NeverChecked
  /\ \E r \in trackedSeries \ Range(probe.result) : r.lastChecked # NeverChecked

\* The places in a list of tracked series of those last checked h hours ago,
\* and of those never checked.
PlacesCheckedAgo(q, h) == { k \in DOMAIN q : q[k].lastChecked = Clock - h }
PlacesNeverChecked(q) == { k \in DOMAIN q : q[k].lastChecked = NeverChecked }

\* C14: when a tracking never checked, one checked 12 hours ago and one
\* checked 48 hours ago are all due, getDueForCheck returns the never-checked
\* one first, then the one checked 48 hours ago, then the one checked 12
\* hours ago: oldest first, as ORDER BY lastChecked ASC NULLS FIRST says.
C14_NullThenOldestFirst ==
  probe.fn = "getDueForCheck" =>
    /\ \A j \in PlacesNeverChecked(probe.result) :
         \A k \in PlacesCheckedAgo(probe.result, 12) \cup PlacesCheckedAgo(probe.result, 48) :
           j < k
    /\ \A j \in PlacesCheckedAgo(probe.result, 48) :
         \A k \in PlacesCheckedAgo(probe.result, 12) : j < k

\* C14: the three trackings are all due and all returned.
C14_Witness ==
  /\ probe.fn = "getDueForCheck"
  /\ Len(probe.result) = 3
  /\ PlacesNeverChecked(probe.result) = {1}
  /\ PlacesCheckedAgo(probe.result, 48) = {2}
  /\ PlacesCheckedAgo(probe.result, 12) = {3}

\* C14 as stated: the never-checked tracking first, then the one checked 12
\* hours ago, then the one checked 48 hours ago.
C14_NullThenNewestFirst ==
  probe.fn = "getDueForCheck" =>
    /\ \A j \in PlacesNeverChecked(probe.result) :
         \A k \in PlacesCheckedAgo(probe.result, 12) \cup PlacesCheckedAgo(probe.result, 48) :
           j < k
    /\ \A j \in PlacesCheckedAgo(probe.result, 12) :
         \A k \in PlacesCheckedAgo(probe.result, 48) : j < k

\* The payloads an endpoint cannot use: a failed request, a payload without
\* the expected member, and one whose member has the wrong shape.
Unusable == Failures \cup {"garbage", "notarray", "badsequence"}

C16_NoRequestForInvalidIdentifier ==
  probe # NoProbe =>
    \A k \in DOMAIN probe.out.requests : IsValidASIN(probe.out.requests[k].id)

\* The relationship lookup of the call gave no relationship marked as a child
\* of the series: it failed, or its payload holds none.
NoChildOfSeries ==
  \/ probe.net.rel.kind # "relationships"
  \/ ~\E k \in DOMAIN probe.net.rel.relationships :
         /\ probe.net.rel.relationships[k].to = "child"
         /\ probe.net.rel.relationships[k].type = "series"

\* C17: when the relationship lookup of a series identifier returns no
\* relationship marked as a child of the series, or fails, the series
\* listing returns the empty list and issues neither the similarity request
\* nor a per-item lookup: the relationship lookup is its only request.
C17_NoChildNoSimilarityRequest ==
  probe.fn = "getBooksBySeriesAsin" /\ NoChildOfSeries =>
    /\ probe.out.result = << >>
    /\ ~probe.out.threw
    /\ \A k \in DOMAIN probe.out.requests :
         probe.out.requests[k].endpoint = "relationships"

\* A series listing whose relationship lookup was answered with relationships
\* of other kinds only, while the similarity endpoint had products to offer.
C17_Witness ==
  /\ probe.fn = "getBooksBySeriesAsin"
  /\ probe.net.rel.kind = "relationships"
  /\ probe.net.rel.relationships # << >>
  /\ NoChildOfSeries
  /\ probe.net.sims.kind = "products"
  /\ probe.net.sims.products # << >>
  /\ Len(probe.out.requests) = 1
  /\ probe.out.result = << >>

\* The series holds no book in the library, or each of its books lacks a
\* well-formed identifier.
NoUsableBook(seriesId) ==
  \A k \in DOMAIN LibraryAsins(seriesId) :
    \/ LibraryAsins(seriesId)[k] = NoAsin
    \/ ~IsValidASIN(ToUpperCase(LibraryAsins(seriesId)[k]))

\* C18: identity resolution for a series with no library-held books, or whose
\* books all lack a valid identifier, returns null and issues no request to
\* the catalog.
C18_NoBooksNoRequest ==
  probe.fn = "findSeriesAsinFromLibrary" /\ NoUsableBook(probe.arg) =>
    /\ probe.out.result = NoAsin
    /\ probe.out.requests = << >>
    /\ ~probe.out.threw

\* Resolution over a series whose two books have no usable identifier, while
\* the provider would have named a series for any book asked about.
C18_Witness ==
  /\ probe.fn = "findSeriesAsinFromLibrary"
  /\ probe.arg = "s3"
  /\ Len(LibraryAsins(probe.arg)) = 2
  /\ \A id \in ValidBookIds : probe.net.book[id] = "primary"
  /\ probe.out.result = NoAsin
  /\ probe.out.requests = << >>

\* Resolution over a series that holds no book at all.
C18_EmptyLibraryWitness ==
  /\ probe.fn = "findSeriesAsinFromLibrary"
  /\ probe.arg = "s2"
  /\ LibraryAsins(probe.arg) = << >>
  /\ probe.out.result = NoAsin
  /\ probe.out.requests = << >>

\* The suffix the region table gives for the regions of the calls; every other
\* region is served from the suffix of us.
ExpectedSuffix(region) == IF region = "de" THEN ".de" ELSE ".com"

TableDriven == {"sims", "relationships", "graph"}

\* Every request to a table-driven endpoint goes to the host of the region's
\* own suffix, or to that of us when the region is not in the table.
RegionSuffixes ==
  probe # NoProbe =>
    \A k \in DOMAIN probe.out.requests :
      probe.out.requests[k].endpoint \in TableDriven =>
        probe.out.requests[k].host = AudibleHost(ExpectedSuffix(probe.region))

\* Every call that was served from the suffix of us for a region outside the
\* table has logged the downgrade.
DowngradesLogged ==
  probe # NoProbe /\ probe.region = "zz" =>
    ((\E k \in DOMAIN probe.out.requests :
         probe.out.requests[k].endpoint \in TableDriven)
       => "invalid region" \in probe.out.logs)

\* The identifier lookup puts the region it is given in the query, whatever
\* the region, and none when it is given none.
RegionPassedThrough ==
  probe.fn \in {"asinSearch", "findSeriesAsinFromBook", "findSeriesAsinFromLibrary"} =>
    \A k \in DOMAIN probe.out.requests :
      probe.out.requests[k].endpoint = "book" =>
        /\ probe.out.requests[k].region = probe.region
        /\ probe.out.requests[k].host = AudnexHost

\* C19: on the table-driven endpoints (similarity, series relationship
\* lookup, relationship-graph series lookup) a region of the table is served
\* from its own suffix ('de' from '.de') and an unrecognized region ('zz')
\* from the suffix of us with a logged downgrade; the identifier lookup
\* passes the region it is given as a query parameter, with no fallback.
C19_RegionRouting == RegionSuffixes /\ DowngradesLogged /\ RegionPassedThrough

\* An integer or decimal: digits, digits with a fraction, or a fraction with
\* a leading dot.
IsNumber(str) ==
  \/ str # << >> /\ \A k \in DOMAIN str : str[k] \in Digits
  \/ \E d \in DOMAIN str :
       /\ str[d] = "."
       /\ d < Len(str)
       /\ \A k \in DOMAIN str : k # d => str[k] \in Digits

\* The substrings of str that are numbers, as pairs of their first and last
\* index.
NumbersIn(str) ==
  { ij \in (DOMAIN str) \X (DOMAIN str) :
      ij[1] <= ij[2] /\ IsNumber(SubSeq(str, ij[1], ij[2])) }

\* C20: cleanSeriesSequence returns the first integer-or-decimal substring of
\* the raw position, a decimal with a leading dot included: the number that
\* starts leftmost and, of those, extends furthest ('2,a' gives '2', '.5'
\* gives '.5'); it returns the raw string unchanged when it holds no digit;
\* and cleaning the cleaned value returns it unchanged.
C20_FirstNumberIdempotent ==
  probe.fn = "cleanSeriesSequence" =>
    LET str == probe.sequence
        hasDigit == \E k \in DOMAIN str : str[k] \in Digits
    IN  /\ hasDigit =>
             \E ij \in NumbersIn(str) :
               /\ \A other \in NumbersIn(str) :
                    \/ ij[1] < other[1]
                    \/ ij[1] = other[1] /\ other[2] <= ij[2]
               /\ probe.result = SubSeq(str, ij[1], ij[2])
        /\ ~hasDigit => probe.result = str
        /\ str = <<"2", ",", "a">> => probe.result = <<"2">>
        /\ str = <<".", "5">> => probe.result = <<".", "5">>
        /\ probe.again = probe.result

\* A raw position with text before and after a decimal with a leading dot
\* was cleaned to that decimal.
C20_Witness ==
  /\ probe.fn = "cleanSeriesSequence"
  /\ probe.sequence = <<"a", ".", "5", ",">>
  /\ probe.result = <<".", "5">>
  /\ probe.again = <<".", "5">>

\* A call of runScheduledCheck starts in this step.
Triggered == \E i \in SweepIds : sweep[i].pc = "idle" /\ sweep'[i].pc # "idle"

\* stop() when no task is held changes nothing and does not fail; stop() that
\* disarms the schedule leaves a running sweep, its check and the flag alone.
C21_StopIsSafe ==
  /\ [](ENABLED Stop)
  /\ [][cronTask # 0 /\ cronTask' = 0 => UNCHANGED << sweep, check, isRunning, store >>]_vars
  /\ [][cronTask = 0 /\ cronTask' = 0 => cronJobs' = cronJobs]_vars

\* C21: after stop() has returned and until init() is called again (the
\* manager holds no task: cronTask is null) no scheduled sweep is triggered,
\* for every sequence of init and stop calls, init called twice before stop
\* included; stop() with no schedule armed changes nothing and does not
\* fail; stop() does not cancel a running sweep.
C21_NoTriggerAfterStop ==
  /\ [][cronTask = 0 => ~Triggered]_vars
  /\ C21_StopIsSafe

\* stop() was called while a sweep was running: the schedule is disarmed and
\* the sweep is still in its check.
C21_Witness ==
  /\ cronTask = 0
  /\ cronJobs = {}
  /\ isRunning
  /\ \E i \in SweepIds : sweep[i].pc = "checking" /\ check[i].pc = "create"

\* An unfollow request is answered in this step.
Unfollows ==
  /\ probe'.fn = "unfollowSeries"
  /\ \/ probe' # probe
     \/ { r.id : r \in trackedSeries' } # { r.id : r \in trackedSeries }

\* C22: unfollow(userId, seriesId) returns true exactly when a TrackedSeries
\* row of the pair existed and was removed, and false otherwise, leaving the
\* stores unchanged; after it has returned true no TrackedSeries row of the
\* pair and no NewRelease row of that tracking remains.
C22_UnfollowRemovesRowAndReleases ==
  [][Unfollows =>
       LET before == { r \in trackedSeries :
                         r.userId = probe'.userId /\ r.seriesId = probe'.seriesId }
           after == { r \in trackedSeries' :
                        r.userId = probe'.userId /\ r.seriesId = probe'.seriesId }
       IN  /\ probe'.removed = "true" =>
                /\ before # {}
                /\ after = {}
                /\ trackedSeries' = trackedSeries \ before
                /\ \A r \in newReleases' :
                     r.trackedSeriesId \notin { b.id : b \in before }
                /\ \A r \in newReleases :
                     r.trackedSeriesId \notin { b.id : b \in before } => r \in newReleases'
           /\ probe'.removed = "false" =>
                before = {} /\ UNCHANGED << trackedSeries, newReleases >>
           /\ probe'.removed = "error" => UNCHANGED << trackedSeries, newReleases >>
  ]_vars

\* An unfollow has returned true for a tracking that had a release recorded:
\* the row and the release are gone.
C22_Witness ==
  /\ probe.fn = "unfollowSeries"
  /\ probe.removed = "true"
  /\ probe.userId = "u2"
  /\ nextRelId > 1
  /\ newReleases = {}
  /\ ~\E r \in trackedSeries : r.userId = "u2"

\* C24: when two follow requests of one user for one series interleave so
\* that both have looked up the row before either creates it, both return
\* the same TrackedSeries row and neither fails: the request that reaches its
\* INSERT after the other has created the row returns that row.
C24_RacingFollowsReturnSameRow ==
  [][\A f \in FollowIds :
       /\ follow[f].pc = "create"
       /\ follow'[f].pc = "idle"
       /\ TrackedConflict(follow[f].userId, follow[f].seriesId)
       => /\ ~follow'[f].failed
          /\ follow'[f].result \in
               { r.id : r \in GetByUserAndSeries(follow[f].userId, follow[f].seriesId) }
  ]_vars

\* C25: the same external item is never recorded twice for one TrackedSeries,
\* also when its identifier arrives in different letter case: no two
\* NewRelease rows of one tracking have identifiers that are equal after
\* case normalization, whether the spellings come in one listing or in the
\* listings of successive checks.
C25_NoDuplicateUpToCase ==
  \A r1, r2 \in newReleases :
    /\ r1.trackedSeriesId = r2.trackedSeriesId
    /\ ToUpperCase(r1.asin) = ToUpperCase(r2.asin)
    => r1 = r2

\* C26: in every reachable state each NewRelease row belongs to an existing
\* TrackedSeries row, also when an unfollow interleaves with a check that
\* still holds the row it read before: no step of a check brings a removed
\* TrackedSeries row back, and such a check leaves no NewRelease behind.
C26_ReleasesBelongToTracking ==
  /\ [](\A r \in newReleases : r.trackedSeriesId \in TrackedIds)
  /\ [][TrackedIds' \subseteq TrackedIds]_vars

\* A check that has inserted a row and has another book to insert holds the
\* snapshot of a row that an unfollow has removed meanwhile.
C26_Witness ==
  \E p \in DOMAIN check :
    /\ check[p].pc = "create"
    /\ check[p].created # << >>
    /\ check[p].ts.id \notin TrackedIds
    /\ newReleases = {}

\* The stored row of the TrackedSeries a check works on, if it still exists.
RowOf(c) == { r \in trackedSeries : r.id = c.ts.id }

\* C29: a check of a TrackedSeries without stored identifier whose resolver
\* returns null updates lastChecked, leaves the identifier null, issues no
\* series-listing request, creates no NewRelease, sends no notification and
\* returns the empty list.  Stated for the step that ends such a check with
\* its update succeeding, and for every state of a check that holds no
\* identifier.
C29_UnresolvedCheckOnlyTouchesLastChecked ==
  /\ [](\A p \in DOMAIN check :
          check[p].ts # NoRow /\ check[p].ts.seriesAsin = NoAsin
          => /\ ~check[p].listed
             /\ check[p].books = << >>
             /\ check[p].created = << >>
             /\ check[p].notified = << >>
             /\ ~check[p].emitted)
  /\ [][\A p \in DOMAIN check :
          check[p].pc = "lcNull" /\ check'[p].pc = "ret"
          => /\ check'[p].ret = << >>
             /\ ~check'[p].threw
             /\ check'[p].ts.seriesAsin = NoAsin
             /\ newReleases' = newReleases
             /\ \A r \in RowOf(check[p]) :
                  \E q \in trackedSeries' :
                    /\ q = [r EXCEPT !.lastChecked = Clock]
                    /\ q.seriesAsin = r.seriesAsin]_vars

\* The resolver has returned null to a check of a row that was never checked
\* and holds no identifier: the check is about to update lastChecked.
C29_Witness ==
  \E p \in DOMAIN check :
    /\ check[p].pc = "lcNull"
    /\ check[p].ts.seriesAsin = NoAsin
    /\ \E r \in RowOf(check[p]) : r.seriesAsin = NoAsin /\ r.lastChecked = NeverChecked

\* What a check has sent out concerns rows it inserted itself; a check that
\* inserted nothing has sent nothing.
SendsOnlyOwnRows ==
  \A p \in DOMAIN check :
    /\ Range(check[p].notified) \subseteq Range(check[p].created)
    /\ check[p].emitted => check[p].created # << >>

\* A check sends only in the step that has stored its lastChecked.
SendsAfterUpdate ==
  \A p \in DOMAIN check :
    (Len(check'[p].notified) > Len(check[p].notified) \/ (check'[p].emitted /\ ~check[p].emitted))
    => /\ check[p].pc = "lc"
       /\ "lastChecked" \notin check'[p].dirty
       /\ \A r \in trackedSeries' : r.id = check[p].ts.id => r.lastChecked = Clock

\* The step in which checkSeriesForNewReleases returns or throws.
Finishes(p) == check[p].pc \notin {"idle", "find", "ret"} /\ check'[p].pc = "ret"

\* C30: a check notifies the delivery collaborator and emits the
\* releases-changed signal if and only if it inserted at least one NewRelease
\* row, only after lastChecked has been updated and only about rows it
\* inserted; a check whose inserts all met the uniqueness conflict sends
\* nothing.
C30_NotifiesIffInserted ==
  /\ []SendsOnlyOwnRows
  /\ [][SendsAfterUpdate]_vars
  /\ [][\A p \in DOMAIN check :
          Finishes(p) =>
            /\ check'[p].notified = check'[p].created
            /\ check'[p].emitted <=> (check'[p].created # << >>)]_vars

\* C27: when a sweep and a manual check have processed the same TrackedSeries
\* concurrently, each NewRelease row inserted by either is returned and
\* notified by exactly one of the two checks: none is notified twice and none
\* goes unnotified.
C27_RaceNotifiesEachInsertOnce ==
  \A p, q \in DOMAIN check :
    /\ p # q
    /\ check[p].pc = "ret" /\ check[q].pc = "ret"
    /\ check[p].ts # NoRow /\ check[q].ts # NoRow
    /\ check[p].ts.id = check[q].ts.id
    => \A id \in Range(check[p].created) \cup Range(check[q].created) :
         /\ (id \in Range(check[p].notified)) # (id \in Range(check[q].notified))
         /\ (id \in Range(check[p].ret)) # (id \in Range(check[q].ret))

\* The parts of C30 that bound what is sent: only own rows, only after the
\* update of lastChecked, nothing by a check that inserted nothing.
SendsOnlyWhatItInserted == []SendsOnlyOwnRows /\ [][SendsAfterUpdate]_vars

\* The step in which a sweep starts the check of a series.
StartsCheck(i) ==
  /\ check'[i].pc \in {"resolve", "diff"}
  /\ check[i].pc \in {"idle", "ret"}

\* The sequencing of the for loop of runScheduledCheck: one check per sweep at
\* a time, started from the head of the list that getDueForCheck returned,
\* the next one only when the previous call has returned; no series is in the
\* list twice or again after its check has started.
SweepChecksInOrder ==
  /\ [](\A i \in SweepIds :
          /\ sweep[i].pc # "checking" => check[i].pc = "idle"
          /\ \A j, k \in DOMAIN sweep[i].queue :
               sweep[i].queue[j].id = sweep[i].queue[k].id => j = k
          /\ \A j \in DOMAIN sweep[i].queue :
               check[i].ts.id # sweep[i].queue[j].id)
  /\ [][\A i \in SweepIds :
          /\ sweep[i].pc = "select" /\ sweep'[i].pc = "checking"
             => \E q \in GetDueForCheck(Clock - ThresholdHours, BatchLimit) :
                  q = << check'[i].ts >> \o sweep'[i].queue
          /\ sweep[i].pc = "checking" /\ StartsCheck(i)
             => /\ check[i].pc = "ret"
                /\ check'[i].ts = Head(sweep[i].queue)
                /\ sweep'[i].queue = Tail(sweep[i].queue)
          /\ sweep[i].pc = "checking" /\ sweep'[i].pc = "checking"
             => \/ sweep'[i].queue = sweep[i].queue
                \/ StartsCheck(i)]_vars

\* C28: within one sweep at most one series check is in flight, the series
\* are checked in due-selection order, the next check starts only after the
\* previous one has finished and the delay has elapsed, and each selected
\* series is checked exactly once: never twice, and the sweep does not end
\* with a selected series left unchecked.
C28_SequentialExactlyOnce ==
  /\ SweepChecksInOrder
  /\ [][\A i \in SweepIds :
          sweep[i].pc = "checking" /\ sweep'[i].pc = "idle"
          => sweep[i].queue = << >>]_vars

\* A check of the tracked series runs or has run after an earlier check of it
\* has finished.
LaterRun(p) == probe.runs >= 1 /\ check[p].pc \notin {"idle", "find"}

\* The run found nothing to do: it attempted no insert, inserted no row, sent
\* nothing and returns no record.
DoesNothingNew(c) ==
  /\ c.books = << >>
  /\ ~c.lost
  /\ c.created = << >>
  /\ c.notified = << >>
  /\ ~c.emitted
  /\ c.ret = << >>

StoredIdentifierStaysNonNull ==
  [][\A r \in trackedSeries : \A q \in trackedSeries' :
       (q.id = r.id /\ r.seriesAsin # NoAsin) => q.seriesAsin # NoAsin]_vars

\* C37: once a TrackedSeries has a non-null canonical identifier stored, no
\* later check changes it to a different value or back to null, also when a
\* sweep that loaded the row while the identifier was null runs concurrently
\* with a manual check that resolved and stored it.
C37_StoredIdentifierNeverChanges ==
  [][\A r \in trackedSeries : \A q \in trackedSeries' :
       (q.id = r.id /\ r.seriesAsin # NoAsin) => q.seriesAsin = r.seriesAsin]_vars

\* What a step of the check p may write: seriesAsin and lastChecked of the
\* row it processes, and new NewRelease rows of that tracking.
WritesOnlyItsTracking(p) ==
  LET t == check[p].ts.id IN
  /\ TrackedIds' = TrackedIds
  /\ \A r \in trackedSeries : \A q \in trackedSeries' :
       q.id = r.id =>
         /\ q = [r EXCEPT !.seriesAsin = q.seriesAsin, !.lastChecked = q.lastChecked]
         /\ r.id # t => q = r
  /\ newReleases \subseteq newReleases'
  /\ \A n \in newReleases' \ newReleases :
       /\ n.trackedSeriesId = t
       /\ \A o \in newReleases : o.id # n.id

\* C36: a sweep or a manual check changes only the canonical identifier and
\* lastChecked of the TrackedSeries it processes and inserts NewRelease rows
\* for that tracking; it never creates or deletes a TrackedSeries row, never
\* changes another column or another tracking's rows, and never updates or
\* deletes an existing NewRelease row.
C36_CheckWritesOnlyItsTracking ==
  [][\A p \in Procs :
       (check'[p] # check[p] \/ (p \in SweepIds /\ sweep'[p] # sweep[p]))
       => WritesOnlyItsTracking(p)]_vars

\* A check has inserted a release for its tracking while the other tracking
\* holds a release of its own.
C36_Witness ==
  \E p \in Procs :
    /\ check[p].pc = "ret"
    /\ check[p].created # << >>
    /\ \E r \in newReleases : r.trackedSeriesId # check[p].ts.id

\* C32: when a check of a series ends by whatever path (the resolver found
\* nothing, the provider listed nothing, releases were created, an error was
\* caught), the stored lastChecked of the series is non-null and is the time
\* of the check's last update, not earlier than its start; a sweep that
\* selects less than 24 hours after that time does not select the series.
C32_EndedCheckHasLastChecked ==
  [][\A p \in Procs :
       (Finishes(p) /\ ~check'[p].threw) =>
         \A r \in trackedSeries' :
           r.id = check[p].ts.id =>
             /\ r.lastChecked # NeverChecked
             /\ r.lastChecked = Clock
             /\ \A h \in 0 .. (ThresholdHours - 1) :
                  ~IsDue(r, (r.lastChecked + h) - ThresholdHours)]_vars

\* A check that caught an error has ended and its row holds a lastChecked.
C32_Witness ==
  \E p \in Procs :
    /\ check[p].pc = "ret"
    /\ check[p].caught
    /\ ~check[p].threw
    /\ \E r \in trackedSeries : r.id = check[p].ts.id /\ r.lastChecked # NeverChecked

\* A check that computes its difference while a dismissed release of its
\* tracking is stored keeps no book of that identifier.
DiffSkipsDismissed(p) ==
  (check[p].pc = "diff" /\ check'[p].pc \in {"create", "lc"}) =>
    \A o \in newReleases :
      (o.trackedSeriesId = check[p].ts.id /\ o.dismissed) =>
        \A i \in DOMAIN check'[p].books :
          ToUpperCase(check'[p].books[i].asin) # ToUpperCase(o.asin)

\* The rows a check inserts are those of the books its difference kept, the
\* books kept only become fewer, and no row is inserted by anything else.
InsertsOnlyKeptBooks ==
  /\ \A p \in Procs :
       (check[p].pc = "create" /\ check'[p] # check[p] /\ check'[p].pc # "idle") =>
         check'[p].books = Tail(check[p].books)
  /\ \A n \in { x \in newReleases' : \A o \in newReleases : o.id # x.id } :
       \E p \in Procs :
         /\ check[p].pc = "create"
         /\ check'[p].created = Append(check[p].created, n.id)
         /\ n.asin = Head(check[p].books).asin
         /\ n.trackedSeriesId = check[p].ts.id

\* C35: a dismissed release still counts as recorded: a manual check or sweep
\* whose difference is computed after the dismissal keeps no book of that
\* external identifier, inserts rows only for the books it kept and notifies
\* only of rows it inserted, so it creates no other row and sends no other
\* notification for the identifier while the tracking stays followed.
C35_DismissedStaysRecorded ==
  [][/\ InsertsOnlyKeptBooks
     /\ \A p \in Procs :
       /\ DiffSkipsDismissed(p)
       /\ \A i \in DOMAIN check'[p].notified :
            \E j \in DOMAIN check'[p].created : check'[p].created[j] = check'[p].notified[i]]_vars

\* A check of a tracking with a dismissed release has listed the series and
\* ended without inserting anything.
C35_Witness ==
  \E p \in Procs :
    /\ check[p].pc = "ret" /\ check[p].listed /\ check[p].created = << >>
    /\ ~check[p].caught
    /\ \E o \in newReleases : o.trackedSeriesId = check[p].ts.id /\ o.dismissed

\* The tracking of release r belongs to user u.
BelongsTo(r, u) ==
  \E t \in trackedSeries : t.id = r.trackedSeriesId /\ t.userId = u

\* A dismiss request of user u leaves the tracked series and the set of
\* releases as they are and changes nothing but the dismissed flag, from
\* false to true, of releases of u.
DismissFrame(u) ==
  /\ trackedSeries' = trackedSeries
  /\ { r.id : r \in newReleases' } = { r.id : r \in newReleases }
  /\ \A r \in newReleases :
       \/ r \in newReleases'
       \/ /\ BelongsTo(r, u)
          /\ ~r.dismissed
          /\ [r EXCEPT !.dismissed = TRUE] \in newReleases'

FollowCreates(f) ==
  /\ follow[f].pc = "create"
  /\ follow'[f].pc = "idle"
  /\ ~follow'[f].failed

\* A step of a manual check that is under way.
CheckSteps(m) == check[m].pc # "idle" /\ check'[m] # check[m]

\* C38: a follow that creates a TrackedSeries answers with the new row in the
\* step that inserts it, while the check it starts has done nothing yet; it
\* starts that check exactly when its lookup found a series identifier, which
\* is the one stored in the row; and no step of a check, failing or not,
\* changes the outcome of a follow request or removes a tracked series.
C38_FollowDoesNotWaitForCheck ==
  [][/\ \A f \in FollowIds :
          FollowCreates(f) =>
            /\ newReleases' = newReleases
            /\ \E row \in trackedSeries' :
                 /\ row \notin trackedSeries
                 /\ row.id = follow'[f].result
                 /\ row.seriesAsin = follow[f].seriesAsin
                 /\ row.lastChecked = NeverChecked
                 /\ follow'[f].spawned <=> row.seriesAsin # NoAsin
                 /\ IF follow'[f].spawned
                      THEN \E m \in ManualIds :
                             /\ check[m].pc = "idle"
                             /\ check'[m] = [IdleCheck EXCEPT !.pc = "find", !.arg = row.id]
                      ELSE check' = check
     /\ \A m \in ManualIds :
          CheckSteps(m) =>
            /\ follow' = follow
            /\ { r.id : r \in trackedSeries' } = TrackedIds]_vars

\* A follow has answered with the row it created, and the check it started
\* has met an error since; the row is still stored.
C38_Witness ==
  \E f \in FollowIds : \E m \in ManualIds :
    /\ follow[f].pc = "idle" /\ follow[f].spawned /\ ~follow[f].failed
    /\ follow[f].result # 0
    /\ \A g \in FollowIds \ {f} : follow[g].result # follow[f].result
    /\ check[m].caught
    /\ check[m].ts # NoRow
    /\ check[m].ts.id = follow[f].result
    /\ \E r \in trackedSeries : r.id = follow[f].result

\* The library books the resolver looks up: those with a well-formed
\* identifier, in the order of the enumeration.
LookedUp(books) == SelectSeq(books, HasValidAsin)

\* The resolution of the i-th of them, taken on its own.
Resolution(i) ==
  FindSeriesAsinFromBook(LookedUp(probe.arg)[i], probe.region, probe.net)

\* The requests of the resolutions of the first n of them, in order.
RECURSIVE RequestsUpTo(_)
RequestsUpTo(n) ==
  IF n = 0 THEN << >> ELSE RequestsUpTo(n - 1) \o Resolution(n).requests

\* The resolutions that end the loop: a series identifier, or an error.
Decisive ==
  { i \in DOMAIN LookedUp(probe.arg) :
      Resolution(i).threw \/ Resolution(i).result.asin # NoAsin }

\* C33: the resolver tries the library books in the order of the enumeration,
\* issues no request for a book without a well-formed identifier, answers the
\* series identifier of the first book whose resolution is non-null and issues
\* no request for any book after it; it answers null only when the resolution
\* of every book is null.
C33_FirstResolvingBookWins ==
  probe.fn = "findFromBooks" =>
    LET out == probe.out
        first == CHOOSE i \in Decisive : \A j \in Decisive : i <= j
    IN  /\ \A k \in DOMAIN out.requests :
             \E b \in DOMAIN probe.arg :
               /\ HasValidAsin(probe.arg[b])
               /\ out.requests[k].id = ToUpperCase(probe.arg[b])
        /\ IF Decisive = {}
             THEN /\ out.result = NoAsin
                  /\ ~out.threw
                  /\ out.requests = RequestsUpTo(Len(LookedUp(probe.arg)))
             ELSE /\ out.requests = RequestsUpTo(first)
                  /\ out.threw = Resolution(first).threw
                  /\ ~out.threw => /\ out.result = Resolution(first).result.asin
                                   /\ out.result # NoAsin

\* Three library books with well-formed identifiers: the first was looked up
\* in vain, the second has resolved, and the third, which would have been
\* requested, was not.
C33_Witness ==
  /\ probe.fn = "findFromBooks"
  /\ Len(probe.arg) = 3
  /\ Len(LookedUp(probe.arg)) = 3
  /\ probe.arg[1] # probe.arg[2]
  /\ Decisive # {}
  /\ 2 \in Decisive /\ 1 \notin Decisive
  /\ ~probe.out.threw
  /\ probe.out.result # NoAsin
  /\ probe.out.requests = RequestsUpTo(2)
  /\ Resolution(3).requests # << >>

\* The call in probe has issued the series,relationships lookup.
GraphQueried == \E k \in DOMAIN probe.out.requests : probe.out.requests[k].endpoint = "graph"

\* The first relationship of the product tagged 'series' (NoRelation if none).
TaggedSeries(product) ==
  Find(product.relationships,
       { i \in DOMAIN product.relationships : product.relationships[i].type = "series" })

\* C34: the series identifier of a book is the one of its primary series
\* association, else of its secondary one; the relationship graph is queried
\* exactly when the book record was fetched and has neither, and then the
\* explicit series entry is taken before the relationship tagged 'series'; the
\* answer is null when no source carries an identifier.
C34_SourcePreference ==
  (probe.fn = "resolveSeriesFromBook" /\ HasValidAsin(probe.arg)) =>
    LET book == probe.net.book
        graph == probe.net.graph
        out == probe.out
        fetched == book.fetched
    IN  /\ ~out.threw
        /\ (fetched /\ book.primary # NoAsin) => out.result = book.primary
        /\ (fetched /\ book.primary = NoAsin /\ book.secondary # NoAsin) =>
             out.result = book.secondary
        /\ GraphQueried <=> (fetched /\ book.primary = NoAsin /\ book.secondary = NoAsin)
        /\ ~fetched => out.result = NoAsin
        /\ (GraphQueried /\ graph \in FailedLookups) => out.result = NoAsin
        /\ (GraphQueried /\ graph \notin FailedLookups) =>
             /\ (graph.series # << >> /\ graph.series[1] # NoAsin) =>
                  out.result = graph.series[1]
             /\ (graph.series = << >> \/ graph.series[1] = NoAsin) =>
                  out.result = TaggedSeries(graph).asin

\* A book record without series association, and a product that carries both
\* an explicit series entry and a relationship tagged 'series': the entry won.
C34_Witness ==
  /\ probe.fn = "resolveSeriesFromBook"
  /\ HasValidAsin(probe.arg)
  /\ GraphQueried
  /\ probe.net.graph \notin FailedLookups
  /\ TaggedSeries(probe.net.graph).asin # NoAsin
  /\ probe.net.graph.series # << >>
  /\ probe.out.result = probe.net.graph.series[1]
  /\ probe.out.result # NoAsin

\* The marker is a number: digits with an optional fraction, or a fraction
\* with a leading dot, and nothing else.
IsNumericMarker(m) ==
  /\ ~m.null
  /\ m.text # << >>
  /\ MatchLength(m.text, 1) = Len(m.text)

\* C39: the releases listed come in ascending order of the numeric value of
\* their sequence markers, and every release whose marker is missing or not a
\* number comes after all releases whose marker is a number.
C39_ListedByNumericMarker ==
  probe.fn = "getForTrackedSeries" =>
    \A i, j \in DOMAIN probe.result :
      i < j =>
        LET a == probe.result[i].sequence
            b == probe.result[j].sequence
        IN  /\ IsNumericMarker(b) => IsNumericMarker(a)
            /\ (IsNumericMarker(a) /\ IsNumericMarker(b)) =>
                 CastAsFloat(a.text) <= CastAsFloat(b.text)

\* What holds of the listing: the numeric markers ascend among themselves and
\* the missing markers come last.
NumericAscendMissingLast ==
  probe.fn = "getForTrackedSeries" =>
    \A i, j \in DOMAIN probe.result :
      i < j =>
        LET a == probe.result[i].sequence
            b == probe.result[j].sequence
        IN  /\ a.null => b.null
            /\ (IsNumericMarker(a) /\ IsNumericMarker(b)) =>
                 CastAsFloat(a.text) <= CastAsFloat(b.text)

\* A release whose marker is text without a number has been listed before a
\* release whose marker is a number.
TextListedBeforeNumber ==
  /\ probe.fn = "getForTrackedSeries"
  /\ \E i, j \in DOMAIN probe.result :
       /\ i < j
       /\ ~probe.result[i].sequence.null
       /\ ~IsNumericMarker(probe.result[i].sequence)
       /\ IsNumericMarker(probe.result[j].sequence)

\* The tracked series id is stored and due for a check now.
DueNow(id) ==
  \E r \in trackedSeries : r.id = id /\ IsDue(r, Clock - ThresholdHours)

\* A check of the sweep on tracked series id has ended.
CheckedBySweep(id) ==
  /\ check["cron"].pc = "ret"
  /\ check["cron"].ts.id = id

\* C31: with the cron task firing again and again and the store answering,
\* every tracked series that is due and stays followed is eventually checked
\* by a sweep, although each sweep takes fewer series than are due and checks
\* may fail at the provider.
C31_EveryDueSeriesIsChecked ==
  \A id \in {Unresolved.id, Resolved.id, ResolvedNotOwned.id} :
    DueNow(id) ~> (id \notin TrackedIds \/ CheckedBySweep(id))

\* More series are due than the batch takes, a check of the sweep has ended
\* in its catch block, and another series is still waiting.
C31_Witness ==
  /\ Cardinality({ r \in trackedSeries : IsDue(r, Clock - ThresholdHours) }) > SmallBatch
  /\ check["cron"].pc = "ret"
  /\ check["cron"].caught
  /\ \E r \in trackedSeries : r.id # check["cron"].ts.id /\ r.lastChecked = NeverChecked
====
